---- MODULE Spec2Model ----
(***************************************************************************)
(* Model of tools/rim2hex.py: the PDP-1 RIM paper tape decoder.            *)
(*                                                                         *)
(* rim_to_hex runs extract_data_bytes, decode_18bit_words,                 *)
(* simulate_rim_loading and generate_hex over one tape.  Each loop         *)
(* iteration of those functions is one step of the state machine; the     *)
(* loop bodies are operators, so that the same definitions also give the   *)
(* functions as pure operators.  Python list indices are 0-based: the      *)
(* operator Index reads a list the way Python does.                        *)
(***************************************************************************)
EXTENDS Integers, Sequences, FiniteSets, TLC

(***************************************************************************)
(* Bounds of the model and the tapes it decodes.                           *)
(***************************************************************************)
MaxSegs == 4
MaxHexSegs == 3
MaxLiveSegs == 3

MaxChunks == 2

MaxPresses == 4

MaxCommands == 3

MaxIrqs == 2

MaxMainOps == 2

(***************************************************************************)
(* Program constants.                                                      *)
(***************************************************************************)
DIO_OPCODE == \o32
JMP_OPCODE == \o60
DefaultStart_Zero == \o000

DefaultStart == \o100

Depth == 4096

(***************************************************************************)
(* Python integer operators on naturals.                                   *)
(***************************************************************************)
(* Bit by bit, on evaluated arguments.                                     *)
BitAndFn[a \in Int, b \in Int] ==
    IF a = 0 \/ b = 0 THEN 0
    ELSE (a % 2) * (b % 2) + 2 * BitAndFn[a \div 2, b \div 2]

BitAnd(a, b) == BitAndFn[a, b]

BitOrFn[a \in Int, b \in Int] ==
    IF a = 0 THEN b
    ELSE IF b = 0 THEN a
    ELSE (IF a % 2 = 1 \/ b % 2 = 1 THEN 1 ELSE 0) + 2 * BitOrFn[a \div 2, b \div 2]

BitOr(a, b) == BitOrFn[a, b]

ShiftL(a, n) == a * (2 ^ n)

ShiftR(a, n) == a \div (2 ^ n)

(* seq[k] of Python for k >= 0: the element, or IndexError.                *)
IndexError == -1

Index(seq, k) == IF k >= 0 /\ k < Len(seq) THEN seq[k + 1] ELSE IndexError

(***************************************************************************)
(* extract_data_bytes                                                      *)
(***************************************************************************)
IsData_MaskC0(b) == BitAnd(b, 192) # 0

IsData(b) == BitAnd(b, 128) # 0

Payload_Mask7F(b) == BitAnd(b, 127)

Payload(b) == BitAnd(b, 63)

ExtractByte_Blocks(acc, b) ==
    IF IsData(b) THEN Append(acc, Payload(b))
    ELSE IF Len(acc) % 3 = 0 THEN acc
    ELSE SubSeq(acc, 1, Len(acc) - (Len(acc) % 3))

ExtractByte_Prepend(acc, b) == IF IsData(b) THEN <<Payload(b)>> \o acc ELSE acc

ExtractByte(acc, b) == IF IsData(b) THEN Append(acc, Payload(b)) ELSE acc

RECURSIVE ExtractFrom(_, _, _)
ExtractFrom(bytes, k, acc) ==
    IF k >= Len(bytes) THEN acc
    ELSE ExtractFrom(bytes, k + 1, ExtractByte(acc, Index(bytes, k)))

extract_data_bytes(bytes) == ExtractFrom(bytes, 0, <<>>)

(***************************************************************************)
(* decode_18bit_words                                                      *)
(***************************************************************************)
DecodeCond_Strict(data, k) == k + 3 < Len(data)

DecodeCond(data, k) == k + 2 < Len(data)

MakeWord_LSBFirst(p0, p1, p2) == BitOr(BitOr(ShiftL(p2, 12), ShiftL(p1, 6)), p0)

MakeWord(p0, p1, p2) == BitOr(BitOr(ShiftL(p0, 12), ShiftL(p1, 6)), p2)

DecodeReadsOk(data, k) ==
    /\ Index(data, k) # IndexError
    /\ Index(data, k + 1) # IndexError
    /\ Index(data, k + 2) # IndexError

DecodeAt(data, k) == MakeWord(Index(data, k), Index(data, k + 1), Index(data, k + 2))

RECURSIVE DecodeFrom(_, _, _)
DecodeFrom(data, k, acc) ==
    IF DecodeCond(data, k) /\ DecodeReadsOk(data, k)
    THEN DecodeFrom(data, k + 3, Append(acc, DecodeAt(data, k)))
    ELSE acc

decode_18bit_words(data) == DecodeFrom(data, 0, <<>>)

(***************************************************************************)
(* simulate_rim_loading: one iteration of the while loop on the loader     *)
(* state s = [memory, start_address, bootloader_active, i, log, raised].   *)
(* log is the trace the verbose prints describe, one entry per iteration.  *)
(***************************************************************************)
EmptyMem == [a \in {} |-> 0]

Opcode(word) == BitAnd(ShiftR(word, 12), \o77)

Address(word) == BitAnd(word, \o7777)

HasNext_OffByOne(ws, k) == k + 1 <= Len(ws)

HasNext_Never(ws, k) == FALSE

HasNext(ws, k) == k + 1 < Len(ws)

StoreWord_FirstWins(mem, a, d) ==
    [x \in DOMAIN mem \cup {a} |-> IF x \in DOMAIN mem THEN mem[x] ELSE d]

StoreWord(mem, a, d) ==
    [x \in DOMAIN mem \cup {a} |-> IF x = a THEN d ELSE mem[x]]

Ev(kind, idx, word, data) ==
    [kind |-> kind, index |-> idx, address |-> Address(word), data |-> data]

InitState ==
    [memory |-> EmptyMem, start_address |-> DefaultStart,
     bootloader_active |-> FALSE, i |-> 0, log |-> <<>>, raised |-> FALSE]

Branch(ws, s) ==
    LET opcode == Opcode(Index(ws, s.i)) IN
    IF ~s.bootloader_active
    THEN IF opcode = DIO_OPCODE
         THEN (IF HasNext(ws, s.i) THEN "InitDIO" ELSE "InitDIOLast")
         ELSE IF opcode = JMP_OPCODE THEN "InitJMP" ELSE "InitSkip"
    ELSE IF opcode = DIO_OPCODE
         THEN (IF HasNext(ws, s.i) THEN "BootDIO" ELSE "BootDIOLast")
         ELSE IF opcode = JMP_OPCODE THEN "BootJMP" ELSE "BootImplicit"

Skip1(ws, s, kind) ==
    [s EXCEPT !.i = s.i + 1,
              !.log = Append(s.log, Ev(kind, s.i, Index(ws, s.i), 0))]

InitDIOStep_Advance1(ws, s) ==
    LET word == Index(ws, s.i)
        data == Index(ws, s.i + 1)
    IN  IF data = IndexError THEN [s EXCEPT !.raised = TRUE]
        ELSE [s EXCEPT !.memory = StoreWord(s.memory, Address(word), data),
                       !.i = s.i + 1,
                       !.log = Append(s.log, Ev("InitDIO", s.i, word, data))]

InitDIOStep_DataAddress(ws, s) ==
    LET word == Index(ws, s.i)
        data == Index(ws, s.i + 1)
    IN  IF data = IndexError THEN [s EXCEPT !.raised = TRUE]
        ELSE [s EXCEPT !.memory = StoreWord(s.memory, Address(data), data),
                       !.i = s.i + 2,
                       !.log = Append(s.log, Ev("InitDIO", s.i, data, data))]

InitDIOStep(ws, s) ==
    LET word == Index(ws, s.i)
        data == Index(ws, s.i + 1)
    IN  IF data = IndexError THEN [s EXCEPT !.raised = TRUE]
        ELSE [s EXCEPT !.memory = StoreWord(s.memory, Address(word), data),
                       !.i = s.i + 2,
                       !.log = Append(s.log, Ev("InitDIO", s.i, word, data))]

InitJMPStep_SetsStart(ws, s) ==
    [s EXCEPT !.bootloader_active = TRUE,
              !.start_address = Address(Index(ws, s.i)),
              !.i = s.i + 1,
              !.log = Append(s.log, Ev("InitJMP", s.i, Index(ws, s.i), 0))]

InitJMPStep_NoActivate(ws, s) ==
    [s EXCEPT !.i = s.i + 1,
              !.log = Append(s.log, Ev("InitJMP", s.i, Index(ws, s.i), 0))]

InitJMPStep_Break(ws, s) ==
    [s EXCEPT !.bootloader_active = TRUE,
              !.i = Len(ws),
              !.log = Append(s.log, Ev("InitJMP", s.i, Index(ws, s.i), 0))]

InitJMPStep(ws, s) ==
    [s EXCEPT !.bootloader_active = TRUE,
              !.i = s.i + 1,
              !.log = Append(s.log, Ev("InitJMP", s.i, Index(ws, s.i), 0))]

BootDIOStep_Advance1(ws, s) ==
    LET word == Index(ws, s.i)
        data == Index(ws, s.i + 1)
    IN  IF data = IndexError THEN [s EXCEPT !.raised = TRUE]
        ELSE [s EXCEPT !.memory = StoreWord(s.memory, Address(word), data),
                       !.i = s.i + 1,
                       !.log = Append(s.log, Ev("BootDIO", s.i, word, data))]

BootDIOStep(ws, s) ==
    LET word == Index(ws, s.i)
        address == Address(word)
        data == Index(ws, s.i + 1)
    IN  IF data = IndexError THEN [s EXCEPT !.raised = TRUE]
        ELSE IF address < 4096
        THEN [s EXCEPT !.memory = StoreWord(s.memory, address, data),
                       !.i = s.i + 2,
                       !.log = Append(s.log, Ev("BootDIO", s.i, word, data))]
        ELSE [s EXCEPT !.i = s.i + 2,
                       !.log = Append(s.log, Ev("BootDIOSkip", s.i, word, data))]

BootJMPStep_KeepsStart(ws, s) ==
    [s EXCEPT !.i = s.i + 1,
              !.log = Append(s.log, Ev("BootJMP", s.i, Index(ws, s.i), 0))]

BootJMPStep_TouchesMemory(ws, s) ==
    [s EXCEPT !.start_address = Address(Index(ws, s.i)),
              !.memory = StoreWord(s.memory, Address(Index(ws, s.i)), 0),
              !.i = s.i + 1,
              !.log = Append(s.log, Ev("BootJMP", s.i, Index(ws, s.i), 0))]

BootJMPStep_Deactivates(ws, s) ==
    [s EXCEPT !.start_address = Address(Index(ws, s.i)),
              !.bootloader_active = FALSE,
              !.i = s.i + 1,
              !.log = Append(s.log, Ev("BootJMP", s.i, Index(ws, s.i), 0))]

BootJMPStep(ws, s) ==
    [s EXCEPT !.start_address = Address(Index(ws, s.i)),
              !.i = s.i + 1,
              !.log = Append(s.log, Ev("BootJMP", s.i, Index(ws, s.i), 0))]

BootImplicitStep_Inert(ws, s) == Skip1(ws, s, "BootImplicitSkip")

BootImplicitStep_AlwaysStores(ws, s) ==
    LET word == Index(ws, s.i)
        address == Address(word)
    IN  IF HasNext(ws, s.i) /\ address < 4096
        THEN [s EXCEPT !.memory = StoreWord(s.memory, address, Index(ws, s.i + 1)),
                       !.i = s.i + 2,
                       !.log = Append(s.log, Ev("BootImplicit", s.i, word, Index(ws, s.i + 1)))]
        ELSE [s EXCEPT !.i = s.i + 2,
                       !.log = Append(s.log, Ev("BootImplicitSkip", s.i, word, 0))]

BootImplicitStep(ws, s) ==
    LET word == Index(ws, s.i)
        address == Address(word)
    IN  IF HasNext(ws, s.i) /\ address < 4096
        THEN LET data == Index(ws, s.i + 1) IN
             IF data = IndexError THEN [s EXCEPT !.raised = TRUE]
             ELSE IF data # 0 \/ address \in DOMAIN s.memory
             THEN [s EXCEPT !.memory = StoreWord(s.memory, address, data),
                            !.i = s.i + 2,
                            !.log = Append(s.log, Ev("BootImplicit", s.i, word, data))]
             ELSE [s EXCEPT !.i = s.i + 2,
                            !.log = Append(s.log, Ev("BootImplicitSkip", s.i, word, data))]
        ELSE [s EXCEPT !.i = s.i + 2,
                       !.log = Append(s.log, Ev("BootImplicitSkip", s.i, word, 0))]

Body(ws, s) ==
    LET b == Branch(ws, s) IN
    CASE b = "InitDIO" -> InitDIOStep(ws, s)
      [] b = "InitDIOLast" -> Skip1(ws, s, "InitDIOLast")
      [] b = "InitJMP" -> InitJMPStep(ws, s)
      [] b = "InitSkip" -> Skip1(ws, s, "InitSkip")
      [] b = "BootDIO" -> BootDIOStep(ws, s)
      [] b = "BootDIOLast" -> Skip1(ws, s, "BootDIOLast")
      [] b = "BootJMP" -> BootJMPStep(ws, s)
      [] OTHER -> BootImplicitStep(ws, s)

RECURSIVE SimulateFrom(_, _)
SimulateFrom(ws, s) ==
    IF s.i < Len(ws) /\ ~s.raised THEN SimulateFrom(ws, Body(ws, s)) ELSE s

simulate_rim_loading(ws) == SimulateFrom(ws, InitState)

(* The (memory, start_address) that rim_to_hex computes from a tape.       *)
RimResult(bytes) ==
    LET r == simulate_rim_loading(decode_18bit_words(extract_data_bytes(bytes)))
    IN  <<r.memory, r.start_address>>

(***************************************************************************)
(* parse_rim_simple: one iteration of its while loop.  The 36-bit block of *)
(* six payload units is kept as its two 18-bit halves, instr_word and      *)
(* data_word.                                                              *)
(***************************************************************************)
SimpleCond(data, k) == k + 5 < Len(data)

RECURSIVE SimpleBlock(_, _, _)
SimpleBlock(data, k, n) ==
    IF n = 0 THEN 0
    ELSE BitOr(ShiftL(SimpleBlock(data, k, n - 1), 6), Index(data, k + n - 1))

SimpleInstrWord(data, k) == BitAnd(SimpleBlock(data, k, 3), \H3FFFF)

SimpleDataWord(data, k) == BitAnd(SimpleBlock(data, k + 3, 3), \H3FFFF)

SimpleBranch(data, k) ==
    LET opcode == Opcode(SimpleInstrWord(data, k)) IN
    IF opcode = DIO_OPCODE THEN "SimpleDIO"
    ELSE IF opcode = JMP_OPCODE THEN "SimpleJMP"
    ELSE "SimpleOther"

SimpleStep_Advance0(data, s) == s

SimpleStep(data, s) ==
    LET instr_word == SimpleInstrWord(data, s.i)
        address == Address(instr_word)
        b == SimpleBranch(data, s.i)
    IN  IF b = "SimpleDIO"
        THEN IF address < 4096
             THEN [s EXCEPT !.memory = StoreWord(s.memory, address, SimpleDataWord(data, s.i)),
                            !.i = s.i + 6]
             ELSE [s EXCEPT !.i = s.i + 6]
        ELSE IF b = "SimpleJMP"
        THEN [s EXCEPT !.start_address = address, !.i = s.i + 6]
        ELSE [s EXCEPT !.i = s.i + 6]

(***************************************************************************)
(* generate_hex: f"{value:05X}" is the upper-case hexadecimal numeral of   *)
(* value, zero-padded on the left to at least 5 characters.                *)
(***************************************************************************)
HexChars == <<"0", "1", "2", "3", "4", "5", "6", "7", "8", "9", "A", "B", "C", "D", "E", "F">>

RECURSIVE HexNumeral(_)
HexNumeral(v) ==
    IF v < 16 THEN <<HexChars[v + 1]>>
    ELSE Append(HexNumeral(v \div 16), HexChars[(v % 16) + 1])

ZeroPad(str, width) ==
    IF Len(str) >= width THEN str
    ELSE [k \in 1..(width - Len(str)) |-> "0"] \o str

Format05X(v) == ZeroPad(HexNumeral(v), 5)

MemGet(mem, addr, default) == IF addr \in DOMAIN mem THEN mem[addr] ELSE default

generate_hex_OffByOne(mem, depth) ==
    [line \in 1..depth |-> Format05X(MemGet(mem, line, 0))]

generate_hex(mem, depth) ==
    [line \in 1..depth |-> Format05X(MemGet(mem, line - 1, 0))]

(***************************************************************************)
(* The tapes of the model: up to MaxSegs segments, each a whole word of    *)
(* three data bytes, one filler byte, or one stray data byte.              *)
(***************************************************************************)
DIO200 == DIO_OPCODE * 4096 + \o200
DIO201 == DIO_OPCODE * 4096 + \o201
JMP200 == JMP_OPCODE * 4096 + \o200
JMP201 == JMP_OPCODE * 4096 + \o201
Data777000 == \o77 * 4096 + \o7000

TapeWords == {DIO200, DIO201, JMP200, JMP201, Data777000, 0}

(* A word as three tape bytes: bit 7 set, six payload bits each.           *)
EncodeWord(w) == <<128 + (w \div 4096), 128 + ((w \div 64) % 64), 128 + (w % 64)>>

(* Leader (0x00) and a filler byte with bit 6 set (0x40).                  *)
FillerBytes == {0, 64}

(* 0xDA: a data byte with bit 6 set, payload 0o32.                         *)
StrayByte == 128 + 64 + DIO_OPCODE

Segments ==
    {EncodeWord(w) : w \in TapeWords} \cup {<<f>> : f \in FillerBytes} \cup {<<StrayByte>>}

(* The tapes of the runs that go on to generate_hex: fewer kinds of        *)
(* segment, as every run writes all 4096 lines.                            *)
HexSegments ==
    {EncodeWord(w) : w \in {DIO200, JMP200, Data777000}}
        \cup {<<f>> : f \in FillerBytes} \cup {<<StrayByte>>}

RECURSIVE TapesOfLen(_, _)
TapesOfLen(segs, n) ==
    IF n = 0 THEN {<<>>}
    ELSE {t \o sg : t \in TapesOfLen(segs, n - 1), sg \in segs}

TapesUpTo(segs, n) == UNION {TapesOfLen(segs, k) : k \in 0..n}

(***************************************************************************)
(* State of one rim_to_hex run.                                            *)
(***************************************************************************)
VARIABLES pc, simulate, rim_bytes, pos, data_bytes, di, words,
          memory, start_address, bootloader_active, i, log, hex_lines,
          upc, attempt, data_len, offset, success, cs_active, tx_enabled,
          spi_log, outcomes, reset_called, from_file,
          mode, btn_hw, irq_flag, presses, enable, osd_visible, btn_event,
          pending_btn, last_btn, osd_log,
          fpc, self_spi, fname_ext, is_sd_file, mount_attempt, fb_log,
          listing, li, new_entries, direntries,
          spc, args, hex_file, line_no, words_loaded, ping_rsp, ser_log,
          spi_result, main_cmd

(* The state of rim2hex.py, of the ESP32 loader ld_pdp1 and of the         *)
(* OsdController's button handling (ld_pdp1.py).                           *)
rimVars == <<pc, simulate, rim_bytes, pos, data_bytes, di, words,
             memory, start_address, bootloader_active, i, log, hex_lines>>

ldVars == <<upc, attempt, data_len, offset, success, cs_active, tx_enabled,
            spi_log, outcomes, reset_called, from_file>>

osdVars == <<mode, btn_hw, irq_flag, presses, enable, osd_visible, btn_event,
             pending_btn, last_btn, osd_log>>

(* The OsdController's file browser: load_file and read_dir_safe.          *)
fbVars == <<fpc, self_spi, fname_ext, is_sd_file, mount_attempt, fb_log,
            listing, li, new_entries, direntries>>

(* tools/serial_loader.py: its command line, the HEX file, the serial port. *)
slVars == <<spc, args, hex_file, line_no, words_loaded, ping_rsp, ser_log>>

(* The shared spi_result buffer and the main loop's transaction in         *)
(* progress, for the interleaving of _irq_handler with the main loop.      *)
irqVars == <<spi_result, main_cmd>>

notRimVars == <<ldVars, osdVars, fbVars, slVars, irqVars>>

notLdVars == <<rimVars, osdVars, fbVars, slVars, irqVars>>

notOsdVars == <<rimVars, ldVars, fbVars, slVars, irqVars>>

notSlVars == <<rimVars, ldVars, osdVars, fbVars, irqVars>>

(* The button handling apart from enable[0] and osd_visible.               *)
btnVars == <<mode, btn_hw, irq_flag, presses, btn_event, pending_btn, last_btn, osd_log>>

(* What load_file and read_dir_safe leave alone besides their own state.   *)
notBrowserVars == <<btnVars, rimVars, ldVars, slVars, irqVars>>

vars == <<rimVars, notRimVars>>

(* No upload is running while the converter runs.                          *)
LdOff ==
    /\ upc = "off"
    /\ attempt = 0
    /\ data_len = 0
    /\ offset = 0
    /\ success = "unset"
    /\ cs_active = FALSE
    /\ tx_enabled = FALSE
    /\ spi_log = <<>>
    /\ outcomes = <<>>
    /\ reset_called = FALSE
    /\ from_file = FALSE

(* No OsdController exists.                                                *)
OsdOff ==
    /\ mode = "off"
    /\ btn_hw = 0
    /\ irq_flag = FALSE
    /\ presses = 0
    /\ enable = 0
    /\ osd_visible = FALSE
    /\ btn_event = FALSE
    /\ pending_btn = 0
    /\ last_btn = 0
    /\ osd_log = <<>>

(* No SPI transaction of the OsdController is looked at.                   *)
IrqOff ==
    /\ spi_result = [by |-> "none", cmd |-> "none", val |-> 0]
    /\ main_cmd = "none"

(* serial_loader.py is not running.                                        *)
SlOff ==
    /\ spc = "off"
    /\ args = <<>>
    /\ hex_file = <<>>
    /\ line_no = 0
    /\ words_loaded = 0
    /\ ping_rsp = "none"
    /\ ser_log = <<>>

(* No file browser call is running.                                        *)
FbOff ==
    /\ fpc = "off"
    /\ self_spi = "ready"
    /\ fname_ext = "none"
    /\ is_sd_file = FALSE
    /\ mount_attempt = 0
    /\ fb_log = <<>>
    /\ listing = <<>>
    /\ li = 0
    /\ new_entries = <<>>
    /\ direntries = <<>>

Cur ==
    [memory |-> memory, start_address |-> start_address,
     bootloader_active |-> bootloader_active, i |-> i, log |-> log,
     raised |-> FALSE]

(* A run of rim_to_hex on one of the tapes, simulate being one of modes.   *)
InitRun(tapes, modes) ==
    /\ rim_bytes \in tapes
    /\ simulate \in modes
    /\ pc = "extract"
    /\ pos = 0
    /\ data_bytes = <<>>
    /\ di = 0
    /\ words = <<>>
    /\ memory = InitState.memory
    /\ start_address = InitState.start_address
    /\ bootloader_active = InitState.bootloader_active
    /\ i = InitState.i
    /\ log = InitState.log
    /\ hex_lines = <<>>
    /\ LdOff
    /\ OsdOff
    /\ FbOff
    /\ SlOff
    /\ IrqOff

(* simulate defaults to True (parameter of rim_to_hex, --simulate).        *)
InitWith(tapes) == InitRun(tapes, {TRUE})

Init == InitWith(TapesUpTo(Segments, MaxSegs))

simVars == <<memory, start_address, bootloader_active, i, log>>

(* extract_data_bytes: for b in rim_bytes                                  *)
ExtractData ==
    /\ pc = "extract"
    /\ pos < Len(rim_bytes)
    /\ IsData(Index(rim_bytes, pos))
    /\ data_bytes' = ExtractByte(data_bytes, Index(rim_bytes, pos))
    /\ pos' = pos + 1
    /\ UNCHANGED <<pc, simulate, rim_bytes, di, words, simVars, hex_lines, notRimVars>>

ExtractFiller ==
    /\ pc = "extract"
    /\ pos < Len(rim_bytes)
    /\ ~IsData(Index(rim_bytes, pos))
    /\ data_bytes' = ExtractByte(data_bytes, Index(rim_bytes, pos))
    /\ pos' = pos + 1
    /\ UNCHANGED <<pc, simulate, rim_bytes, di, words, simVars, hex_lines, notRimVars>>

ExtractReturn ==
    /\ pc = "extract"
    /\ pos >= Len(rim_bytes)
    /\ pc' = IF simulate THEN "decode" ELSE "simple"
    /\ UNCHANGED <<simulate, rim_bytes, pos, data_bytes, di, words, simVars, hex_lines, notRimVars>>

(* decode_18bit_words: while i + 2 < len(data_bytes)                       *)
DecodeWord ==
    /\ pc = "decode"
    /\ DecodeCond(data_bytes, di)
    /\ IF DecodeReadsOk(data_bytes, di)
       THEN /\ words' = Append(words, DecodeAt(data_bytes, di))
            /\ di' = di + 3
            /\ pc' = "decode"
       ELSE /\ pc' = "raised"
            /\ UNCHANGED <<words, di>>
    /\ UNCHANGED <<simulate, rim_bytes, pos, data_bytes, simVars, hex_lines, notRimVars>>

DecodeReturn ==
    /\ pc = "decode"
    /\ ~DecodeCond(data_bytes, di)
    /\ pc' = "simulate"
    /\ UNCHANGED <<simulate, rim_bytes, pos, data_bytes, di, words, simVars, hex_lines, notRimVars>>

(* simulate_rim_loading: while i < len(words)                              *)
SimAssign(n) ==
    /\ memory' = n.memory
    /\ start_address' = n.start_address
    /\ bootloader_active' = n.bootloader_active
    /\ i' = n.i
    /\ log' = n.log
    /\ pc' = IF n.raised THEN "raised" ELSE pc
    /\ UNCHANGED <<simulate, rim_bytes, pos, data_bytes, di, words, hex_lines, notRimVars>>

AtBranch(b) == pc = "simulate" /\ i < Len(words) /\ Branch(words, Cur) = b

InitDIO ==
    /\ AtBranch("InitDIO")
    /\ SimAssign(Body(words, Cur))

InitDIOLast ==
    /\ AtBranch("InitDIOLast")
    /\ SimAssign(Body(words, Cur))

InitJMP ==
    /\ AtBranch("InitJMP")
    /\ SimAssign(Body(words, Cur))

InitSkip ==
    /\ AtBranch("InitSkip")
    /\ SimAssign(Body(words, Cur))

BootDIO ==
    /\ AtBranch("BootDIO")
    /\ SimAssign(Body(words, Cur))

BootDIOLast ==
    /\ AtBranch("BootDIOLast")
    /\ SimAssign(Body(words, Cur))

BootJMP ==
    /\ AtBranch("BootJMP")
    /\ SimAssign(Body(words, Cur))

BootImplicit ==
    /\ AtBranch("BootImplicit")
    /\ SimAssign(Body(words, Cur))

SimReturn ==
    /\ pc = "simulate"
    /\ i >= Len(words)
    /\ pc' = "done"
    /\ UNCHANGED <<simulate, rim_bytes, pos, data_bytes, di, words, simVars, hex_lines, notRimVars>>

Next ==
    \/ ExtractData
    \/ ExtractFiller
    \/ ExtractReturn
    \/ DecodeWord
    \/ DecodeReturn
    \/ InitDIO
    \/ InitDIOLast
    \/ InitJMP
    \/ InitSkip
    \/ BootDIO
    \/ BootDIOLast
    \/ BootJMP
    \/ BootImplicit
    \/ SimReturn

Spec == Init /\ [][Next]_vars

(* rim_to_hex: hex_lines = generate_hex(memory)                            *)
GenerateHex ==
    /\ pc = "done"
    /\ hex_lines' = generate_hex(memory, Depth)
    /\ pc' = "hex"
    /\ UNCHANGED <<simulate, rim_bytes, pos, data_bytes, di, words, simVars, notRimVars>>

InitHex == InitWith(TapesUpTo(HexSegments, MaxHexSegs))

NextHex == Next \/ GenerateHex

SpecHex == InitHex /\ [][NextHex]_vars

(* parse_rim_simple: while i + 5 < len(data_bytes)                         *)
AtSimple(b) ==
    pc = "simple" /\ SimpleCond(data_bytes, i) /\ SimpleBranch(data_bytes, i) = b

SimpleDIO ==
    /\ AtSimple("SimpleDIO")
    /\ SimAssign(SimpleStep(data_bytes, Cur))

SimpleJMP ==
    /\ AtSimple("SimpleJMP")
    /\ SimAssign(SimpleStep(data_bytes, Cur))

SimpleOther ==
    /\ AtSimple("SimpleOther")
    /\ SimAssign(SimpleStep(data_bytes, Cur))

SimpleReturn ==
    /\ pc = "simple"
    /\ ~SimpleCond(data_bytes, i)
    /\ pc' = "done"
    /\ UNCHANGED <<simulate, rim_bytes, pos, data_bytes, di, words, simVars, hex_lines, notRimVars>>

(***************************************************************************)
(* The runs in both modes of rim_to_hex.  The program is one thread that   *)
(* keeps executing: a step that can be taken is eventually taken.          *)
(***************************************************************************)
LiveTapes == TapesUpTo(Segments, MaxLiveSegs)

(* rim_to_hex is entered with its arguments; nothing is read yet.          *)
InitLive ==
    /\ pc = "read"
    /\ simulate \in BOOLEAN
    /\ rim_bytes = <<>>
    /\ pos = 0
    /\ data_bytes = <<>>
    /\ di = 0
    /\ words = <<>>
    /\ memory = InitState.memory
    /\ start_address = InitState.start_address
    /\ bootloader_active = InitState.bootloader_active
    /\ i = InitState.i
    /\ log = InitState.log
    /\ hex_lines = <<>>
    /\ LdOff
    /\ OsdOff
    /\ FbOff
    /\ SlOff
    /\ IrqOff

(* rim_bytes = read_rim_bytes(input_path)                                  *)
ReadRim ==
    /\ pc = "read"
    /\ rim_bytes' \in LiveTapes
    /\ pc' = "extract"
    /\ UNCHANGED <<simulate, pos, data_bytes, di, words, simVars, hex_lines, notRimVars>>

NextLive ==
    \/ ReadRim
    \/ Next
    \/ SimpleDIO
    \/ SimpleJMP
    \/ SimpleOther
    \/ SimpleReturn

SpecLive == InitLive /\ [][NextLive]_vars /\ WF_vars(NextLive)

(***************************************************************************)
(* ld_pdp1.load_and_run_from_bytes (src/esp32/ld_pdp1.py).  Every SPI      *)
(* command is one step whose spi.write either completes or raises; upc is  *)
(* the position in the routine, outcomes has one entry per finished        *)
(* attempt, spi_log one entry per command issued.                          *)
(***************************************************************************)
MAX_UPLOAD_RETRIES == 2

CHUNK_SIZE == 256

FILE_INDEX_RIM == 1

(* len(data): empty, part of a chunk, whole chunks.                        *)
DataLens ==
    {0} \cup {k * CHUNK_SIZE + r : k \in 0..(MaxChunks - 1), r \in {1, CHUNK_SIZE}}

(* The converter is not running on the ESP32.                              *)
RimOff ==
    /\ pc = "off"
    /\ simulate = TRUE
    /\ rim_bytes = <<>>
    /\ pos = 0
    /\ data_bytes = <<>>
    /\ di = 0
    /\ words = <<>>
    /\ memory = EmptyMem
    /\ start_address = DefaultStart
    /\ bootloader_active = FALSE
    /\ i = 0
    /\ log = <<>>
    /\ hex_lines = <<>>

(* Entry of the for loop, attempt 1.                                       *)
InitUpload ==
    /\ RimOff
    /\ OsdOff
    /\ FbOff
    /\ SlOff
    /\ IrqOff
    /\ upc = "cpu_halt"
    /\ attempt = 1
    /\ data_len \in DataLens
    /\ offset = 0
    /\ success = "unset"
    /\ cs_active = FALSE
    /\ tx_enabled = FALSE
    /\ spi_log = <<>>
    /\ outcomes = <<>>
    /\ reset_called = FALSE
    /\ from_file = FALSE

(* _cs_active(); spi.write(...); _cs_inactive(): a write that raises skips *)
(* the last call.                                                          *)
SpiCommand(cmd, arg, ok) ==
    /\ spi_log' = Append(spi_log, [cmd |-> cmd, arg |-> arg, attempt |-> attempt, ok |-> ok])
    /\ cs_active' = ~ok

(* except Exception as e: last_error = str(e)                              *)
Raised(kind) ==
    /\ upc' = "attempt_end"
    /\ outcomes' = Append(outcomes, kind)

CpuHalt ==
    /\ upc = "cpu_halt"
    /\ \E ok \in BOOLEAN :
          /\ SpiCommand("ctrl", 2, ok)
          /\ IF ok THEN upc' = "cpu_reset" /\ UNCHANGED outcomes
                   ELSE Raised("raised")
    /\ UNCHANGED <<attempt, data_len, from_file, offset, success, tx_enabled, reset_called, notLdVars>>

CpuReset ==
    /\ upc = "cpu_reset"
    /\ \E ok \in BOOLEAN :
          /\ SpiCommand("ctrl", 4, ok)
          /\ IF ok THEN upc' = "file_index" /\ UNCHANGED outcomes
                   ELSE Raised("raised")
    /\ UNCHANGED <<attempt, data_len, from_file, offset, success, tx_enabled, reset_called, notLdVars>>

(* load_from_bytes: self.file_index(FILE_INDEX_RIM)                        *)
FileIndex ==
    /\ upc = "file_index"
    /\ \E ok \in BOOLEAN :
          /\ SpiCommand("file_index", FILE_INDEX_RIM, ok)
          /\ IF ok THEN upc' = "tx_enable" /\ UNCHANGED outcomes
                   ELSE Raised("raised")
    /\ UNCHANGED <<attempt, data_len, from_file, offset, success, tx_enabled, reset_called, notLdVars>>

(* load_from_bytes: self.file_tx_enable(True); offset = 0                  *)
FileTxEnable ==
    /\ upc = "tx_enable"
    /\ \E ok \in BOOLEAN :
          /\ SpiCommand("file_tx_enable", 1, ok)
          /\ tx_enabled' = (ok \/ tx_enabled)
          /\ IF ok THEN upc' = "stream" /\ offset' = 0 /\ UNCHANGED outcomes
                   ELSE Raised("raised") /\ UNCHANGED offset
    /\ UNCHANGED <<attempt, data_len, from_file, success, reset_called, notLdVars>>

ChunkLen == IF data_len - offset < CHUNK_SIZE THEN data_len - offset ELSE CHUNK_SIZE

(* load_from_bytes: while offset < len(data): self.file_tx_data(chunk)     *)
FileTxData ==
    /\ upc = "stream"
    /\ offset < data_len
    /\ \E ok \in BOOLEAN :
          /\ SpiCommand("file_tx_data", ChunkLen, ok)
          /\ IF ok THEN offset' = offset + CHUNK_SIZE /\ upc' = "stream"
                   ELSE upc' = "tx_failed" /\ UNCHANGED offset
    /\ UNCHANGED <<attempt, data_len, from_file, success, tx_enabled, outcomes, reset_called, notLdVars>>

(* load_from_bytes: except Exception: self.file_tx_enable(False);          *)
(* return False                                                            *)
FileTxDisableFailed_ReturnsTrue ==
    /\ upc = "tx_failed"
    /\ \E ok \in BOOLEAN :
          /\ SpiCommand("file_tx_enable", 0, ok)
          /\ tx_enabled' = (~ok /\ tx_enabled)
          /\ IF ok THEN upc' = "loaded" /\ success' = "True" /\ UNCHANGED outcomes
                   ELSE Raised("raised") /\ UNCHANGED success
    /\ UNCHANGED <<attempt, data_len, from_file, offset, reset_called, notLdVars>>

FileTxDisableFailed_NoDisable ==
    /\ upc = "tx_failed"
    /\ upc' = "loaded"
    /\ success' = "False"
    /\ UNCHANGED <<attempt, data_len, from_file, offset, cs_active, tx_enabled, spi_log,
                   outcomes, reset_called, notLdVars>>

FileTxDisableFailed ==
    /\ upc = "tx_failed"
    /\ \E ok \in BOOLEAN :
          /\ SpiCommand("file_tx_enable", 0, ok)
          /\ tx_enabled' = (~ok /\ tx_enabled)
          /\ IF ok THEN upc' = "loaded" /\ success' = "False" /\ UNCHANGED outcomes
                   ELSE Raised("raised") /\ UNCHANGED success
    /\ UNCHANGED <<attempt, data_len, from_file, offset, reset_called, notLdVars>>

(* load_from_bytes: self.file_tx_enable(False); return True                *)
FileTxDisable ==
    /\ upc = "stream"
    /\ ~(offset < data_len)
    /\ \E ok \in BOOLEAN :
          /\ SpiCommand("file_tx_enable", 0, ok)
          /\ tx_enabled' = (~ok /\ tx_enabled)
          /\ IF ok THEN upc' = "loaded" /\ success' = "True" /\ UNCHANGED outcomes
                   ELSE Raised("raised") /\ UNCHANGED success
    /\ UNCHANGED <<attempt, data_len, from_file, offset, reset_called, notLdVars>>

(* if success: self.cpu_run(); return True                                 *)
CpuRun ==
    /\ upc = "loaded"
    /\ success = "True"
    /\ \E ok \in BOOLEAN :
          /\ SpiCommand("ctrl", 1, ok)
          /\ IF ok THEN upc' = "returned_true" /\ outcomes' = Append(outcomes, "success")
                   ELSE Raised("run_raised")
    /\ UNCHANGED <<attempt, data_len, from_file, offset, success, tx_enabled, reset_called, notLdVars>>

(* else: last_error = "load_from_bytes returned False"                     *)
TransferFailed ==
    /\ upc = "loaded"
    /\ success = "False"
    /\ upc' = "attempt_end"
    /\ outcomes' = Append(outcomes, "returned_false")
    /\ UNCHANGED <<attempt, data_len, from_file, offset, success, cs_active, tx_enabled, spi_log,
                   reset_called, notLdVars>>

(* for attempt in range(1, MAX_UPLOAD_RETRIES + 1): the next attempt       *)
NextAttempt ==
    /\ upc = "attempt_end"
    /\ attempt < MAX_UPLOAD_RETRIES
    /\ attempt' = attempt + 1
    /\ upc' = "cpu_halt"
    /\ UNCHANGED <<data_len, from_file, offset, success, cs_active, tx_enabled, spi_log, outcomes,
                   reset_called, notLdVars>>

HardReset_ReturnsTrue ==
    /\ upc = "attempt_end"
    /\ ~(attempt < MAX_UPLOAD_RETRIES)
    /\ upc' = "returned_true"
    /\ UNCHANGED <<attempt, data_len, from_file, offset, success, cs_active, tx_enabled, spi_log,
                   outcomes, reset_called, notLdVars>>

(* After the loop: reset(), machine.reset, which restarts the ESP32 and    *)
(* does not return.                                                        *)
HardReset ==
    /\ upc = "attempt_end"
    /\ ~(attempt < MAX_UPLOAD_RETRIES)
    /\ reset_called' = TRUE
    /\ upc' = "reset"
    /\ UNCHANGED <<attempt, data_len, from_file, offset, success, cs_active, tx_enabled, spi_log,
                   outcomes, notLdVars>>

NextUpload ==
    \/ CpuHalt
    \/ CpuReset
    \/ FileIndex
    \/ FileTxEnable
    \/ FileTxData
    \/ FileTxDisableFailed
    \/ FileTxDisable
    \/ CpuRun
    \/ TransferFailed
    \/ NextAttempt
    \/ HardReset

SpecUpload == InitUpload /\ [][NextUpload]_vars

TypeOKUpload ==
    /\ upc \in {"cpu_halt", "cpu_reset", "file_index", "tx_enable", "stream", "tx_failed",
                "loaded", "attempt_end", "returned_true", "reset"}
    /\ attempt \in 1..MAX_UPLOAD_RETRIES
    /\ data_len \in DataLens
    /\ offset \in 0..(MaxChunks * CHUNK_SIZE)
    /\ success \in {"unset", "True", "False"}
    /\ cs_active \in BOOLEAN
    /\ tx_enabled \in BOOLEAN
    /\ reset_called \in BOOLEAN
    /\ Len(outcomes) <= MAX_UPLOAD_RETRIES

(***************************************************************************)
(* ld_pdp1.load and ld_pdp1.load_from_bytes called on their own            *)
(* (src/esp32/ld_pdp1.py).  from_file tells which of the two runs; both    *)
(* share file_index, file_tx_enable, the chunk loop and the two disables.  *)
(* upc = "loaded" is the return (success holds the value returned), upc =  *)
(* "attempt_end" an exception that leaves the function.                    *)
(***************************************************************************)
InitTransfer ==
    /\ RimOff
    /\ OsdOff
    /\ FbOff
    /\ SlOff
    /\ IrqOff
    /\ from_file \in BOOLEAN
    /\ upc = IF from_file THEN "stat" ELSE "file_index"
    /\ attempt = 1
    /\ data_len \in DataLens
    /\ offset = 0
    /\ success = "unset"
    /\ cs_active = FALSE
    /\ tx_enabled = FALSE
    /\ spi_log = <<>>
    /\ outcomes = <<>>
    /\ reset_called = FALSE

(* load: os.stat(filename); except OSError: return False.                  *)
LoadStat ==
    /\ upc = "stat"
    /\ \E ok \in BOOLEAN :
          IF ok THEN upc' = "open" /\ UNCHANGED success
                ELSE upc' = "loaded" /\ success' = "False"
    /\ UNCHANGED <<attempt, data_len, from_file, offset, cs_active, tx_enabled, spi_log,
                   outcomes, reset_called, notLdVars>>

(* load: f = open(filename, "rb"); except OSError: return False.           *)
LoadOpen ==
    /\ upc = "open"
    /\ \E ok \in BOOLEAN :
          IF ok THEN upc' = "file_index" /\ UNCHANGED success
                ELSE upc' = "loaded" /\ success' = "False"
    /\ UNCHANGED <<attempt, data_len, from_file, offset, cs_active, tx_enabled, spi_log,
                   outcomes, reset_called, notLdVars>>

(* load: chunk = f.read(CHUNK_SIZE) raises inside the try.                 *)
LoadReadRaises ==
    /\ upc = "stream"
    /\ from_file
    /\ upc' = "tx_failed"
    /\ UNCHANGED <<attempt, data_len, from_file, offset, success, cs_active, tx_enabled,
                   spi_log, outcomes, reset_called, notLdVars>>

NextTransfer ==
    \/ LoadStat
    \/ LoadOpen
    \/ LoadReadRaises
    \/ FileIndex
    \/ FileTxEnable
    \/ FileTxData
    \/ FileTxDisableFailed
    \/ FileTxDisable

SpecTransfer == InitTransfer /\ [][NextTransfer]_vars

TypeOKTransfer ==
    /\ upc \in {"stat", "open", "file_index", "tx_enable", "stream", "tx_failed",
                "loaded", "attempt_end"}
    /\ from_file \in BOOLEAN
    /\ data_len \in DataLens
    /\ success \in {"unset", "True", "False"}
    /\ Len(outcomes) <= 1

(***************************************************************************)
(* Chip-select framing of the ld_pdp1 SPI commands (src/esp32/ld_pdp1.py): *)
(* ctrl, file_tx_enable, file_index and file_tx_data, each _cs_active(),    *)
(* one spi.write (two for file_tx_data), _cs_inactive(), with no try.       *)
(* spi_log holds the pin calls and the writes; a cs_low entry records in    *)
(* edge whether the pin changed.  attempt counts the commands begun,        *)
(* outcomes how each ended.  A write that raises leaves the command; the    *)
(* caller goes on with the next one.                                        *)
(***************************************************************************)
SpiCommands == {"ctrl", "file_tx_enable", "file_index", "file_tx_data"}

(* The number of spi.write calls of a command.                              *)
WriteCalls(cmd) == IF cmd = "file_tx_data" THEN 2 ELSE 1

PinEv(ev, cmd, edge) == [ev |-> ev, cmd |-> cmd, n |-> 0, ok |-> TRUE, edge |-> edge]

WriteEv(cmd, n, ok) == [ev |-> "write", cmd |-> cmd, n |-> n, ok |-> ok, edge |-> FALSE]

(* ld_pdp1.__init__: self.cs.on().                                          *)
InitFrame ==
    /\ RimOff
    /\ OsdOff
    /\ FbOff
    /\ SlOff
    /\ IrqOff
    /\ upc = "idle"
    /\ attempt = 0
    /\ data_len = 0
    /\ offset = 0
    /\ success = "unset"
    /\ cs_active = FALSE
    /\ tx_enabled = FALSE
    /\ spi_log = <<>>
    /\ outcomes = <<>>
    /\ reset_called = FALSE
    /\ from_file = FALSE

(* The command in progress.                                                 *)
CurCmd == spi_log[Len(spi_log)].cmd

(* self._cs_active(): self.cs.off().                                        *)
FrameCsActive ==
    /\ upc = "idle"
    /\ attempt < MaxCommands
    /\ \E cmd \in SpiCommands :
          spi_log' = Append(spi_log, PinEv("cs_low", cmd, ~cs_active))
    /\ cs_active' = TRUE
    /\ attempt' = attempt + 1
    /\ offset' = 1
    /\ upc' = "write"
    /\ UNCHANGED <<data_len, from_file, success, tx_enabled, outcomes, reset_called,
                   notLdVars>>

(* self.spi.write(...): it completes, or it raises and the command is left  *)
(* before _cs_inactive().                                                   *)
FrameWrite ==
    /\ upc = "write"
    /\ \E ok \in BOOLEAN :
          /\ spi_log' = Append(spi_log, WriteEv(CurCmd, offset, ok))
          /\ IF ok
             THEN /\ upc' = IF offset < WriteCalls(CurCmd) THEN "write" ELSE "release"
                  /\ offset' = offset + 1
                  /\ UNCHANGED outcomes
             ELSE /\ upc' = "idle"
                  /\ outcomes' = Append(outcomes, "raised")
                  /\ UNCHANGED offset
    /\ UNCHANGED <<attempt, data_len, from_file, success, cs_active, tx_enabled,
                   reset_called, notLdVars>>

(* self._cs_inactive(): self.cs.on().                                       *)
FrameCsInactive ==
    /\ upc = "release"
    /\ spi_log' = Append(spi_log, PinEv("cs_high", CurCmd, cs_active))
    /\ cs_active' = FALSE
    /\ outcomes' = Append(outcomes, "ok")
    /\ upc' = "idle"
    /\ UNCHANGED <<attempt, data_len, from_file, offset, success, tx_enabled,
                   reset_called, notLdVars>>

NextFrame ==
    \/ FrameCsActive
    \/ FrameWrite
    \/ FrameCsInactive

SpecFrame == InitFrame /\ [][NextFrame]_vars

TypeOKFrame ==
    /\ upc \in {"idle", "write", "release"}
    /\ attempt \in 0..MaxCommands
    /\ cs_active \in BOOLEAN
    /\ Len(outcomes) <= attempt

(***************************************************************************)
(* OsdController button handling (src/esp32/ld_pdp1.py): _irq_handler,     *)
(* poll_events and the polling loop of run().  btn_hw is the byte the FPGA *)
(* returns for the button read, irq_flag its pending button interrupt,     *)
(* osd_log what poll_events and the loop did, one entry per event.         *)
(***************************************************************************)
BTN_FIRE1 == \H02

BTN_UP == \H08

BTN_DOWN == \H10

BTN_LEFT == \H20

BTN_RIGHT == \H40

COMBO == \H78

(* Readings of the buttons: released (0, or 1 when only BTN[0] is set),    *)
(* the combo, single buttons with and without BTN[0].                      *)
Readings == {0, 1, COMBO, COMBO + 1, BTN_UP, BTN_RIGHT + 1}

WaitBit_Never(en) == FALSE

WaitBit(en) == BitAnd(en, 2) # 0

(* self.enable[0] ^ 1                                                      *)
Xor1(en) == IF en % 2 = 0 THEN en + 1 ELSE en - 1

OsdEv(kind, btn, en) == [kind |-> kind, btn |-> btn, enable |-> en]

(* The OsdController fields poll_events works on.                          *)
CurOsd ==
    [enable |-> enable, osd_visible |-> osd_visible, btn_event |-> btn_event,
     pending_btn |-> pending_btn, log |-> osd_log]

(* select_entry: a directory is entered; a file goes to load_file, which   *)
(* ends with the OSD hidden (loaded) or shown again (failed).              *)
SelectOutcomes == {"dir", "loaded", "failed"}

MenuAction(o, btn, kind) == [o EXCEPT !.log = Append(o.log, OsdEv(kind, btn, o.enable))]

SelectEntry(o, btn, sel) ==
    LET m == MenuAction(o, btn, "select") IN
    CASE sel = "dir" -> m
      [] sel = "loaded" -> [m EXCEPT !.enable = 0, !.osd_visible = FALSE]
      [] OTHER -> [m EXCEPT !.enable = 1, !.osd_visible = TRUE]

(* poll_events: lines 852-891.                                             *)
poll_events(o, sel) ==
    IF ~o.btn_event THEN o
    ELSE LET c == [o EXCEPT !.btn_event = FALSE]
             btn == o.pending_btn
         IN  IF WaitBit(c.enable)
             THEN IF btn = 1
                  THEN [c EXCEPT !.enable = BitAnd(c.enable, 1),
                                 !.log = Append(c.log, OsdEv("release", btn, c.enable))]
                  ELSE [c EXCEPT !.log = Append(c.log, OsdEv("waiting", btn, c.enable))]
             ELSE IF BitAnd(btn, COMBO) = COMBO
             THEN [c EXCEPT !.enable = BitOr(Xor1(c.enable), 2),
                            !.osd_visible = (BitAnd(BitOr(Xor1(c.enable), 2), 1) # 0),
                            !.log = Append(c.log, OsdEv("toggle", btn, c.enable))]
             ELSE IF c.enable = 1
             THEN LET btn_only == BitAnd(btn, \H7E) IN
                  CASE btn_only = BTN_UP -> MenuAction(c, btn, "menu_up")
                    [] btn_only = BTN_DOWN -> MenuAction(c, btn, "menu_down")
                    [] btn_only = BTN_LEFT -> MenuAction(c, btn, "updir")
                    [] btn_only = BTN_RIGHT -> SelectEntry(c, btn, sel)
                    [] btn_only = BTN_FIRE1 -> MenuAction(c, btn, "refresh")
                    [] OTHER -> c
             ELSE c

OsdAssign(n) ==
    /\ enable' = n.enable
    /\ osd_visible' = n.osd_visible
    /\ btn_event' = n.btn_event
    /\ pending_btn' = n.pending_btn
    /\ osd_log' = n.log

(* start_osd(): enable[0] = 0, OSD off; IRQ-driven, or run() with polling. *)
InitOsd ==
    /\ RimOff
    /\ LdOff
    /\ FbOff
    /\ SlOff
    /\ IrqOff
    /\ mode \in {"irq", "polling"}
    /\ btn_hw \in {0, 1}
    /\ irq_flag = FALSE
    /\ presses = 0
    /\ enable = 0
    /\ osd_visible = FALSE
    /\ btn_event = FALSE
    /\ pending_btn = 0
    /\ last_btn = 0
    /\ osd_log = <<>>

(* The user changes the buttons; the FPGA raises its button interrupt.     *)
ButtonChange ==
    /\ mode \in {"irq", "polling"}
    /\ presses < MaxPresses
    /\ \E b \in Readings \ {btn_hw} : btn_hw' = b
    /\ irq_flag' = TRUE
    /\ presses' = presses + 1
    /\ UNCHANGED <<mode, enable, osd_visible, btn_event, pending_btn, last_btn, osd_log,
                   notOsdVars>>

(* _irq_handler: the IRQ flag is pending, the button read clears it, and   *)
(* only a reading above 1 is passed on.                                    *)
IrqHandler ==
    /\ mode = "irq"
    /\ irq_flag
    /\ irq_flag' = FALSE
    /\ IF btn_hw > 1
       THEN pending_btn' = btn_hw /\ btn_event' = TRUE
       ELSE UNCHANGED <<pending_btn, btn_event>>
    /\ UNCHANGED <<mode, btn_hw, presses, enable, osd_visible, last_btn, osd_log,
                   notOsdVars>>

(* IRQ-driven mode: the main loop calls poll_events().                     *)
MainPoll ==
    /\ mode = "irq"
    /\ btn_event
    /\ \E sel \in SelectOutcomes : OsdAssign(poll_events(CurOsd, sel))
    /\ UNCHANGED <<mode, btn_hw, irq_flag, presses, last_btn, notOsdVars>>

(* run(): if btn != last_btn and btn > 1: poll_events()                    *)
RunLoopEvent ==
    /\ mode = "polling"
    /\ btn_hw # last_btn /\ btn_hw > 1
    /\ \E sel \in SelectOutcomes :
          OsdAssign(poll_events([CurOsd EXCEPT !.pending_btn = btn_hw,
                                               !.btn_event = TRUE], sel))
    /\ last_btn' = btn_hw
    /\ irq_flag' = FALSE
    /\ UNCHANGED <<mode, btn_hw, presses, notOsdVars>>

(* run(): elif btn == 0 and last_btn != 0: clear the wait bit              *)
RunLoopRelease ==
    /\ mode = "polling"
    /\ ~(btn_hw # last_btn /\ btn_hw > 1)
    /\ btn_hw = 0 /\ last_btn # 0
    /\ IF WaitBit(enable)
       THEN /\ enable' = BitAnd(enable, 1)
            /\ osd_log' = Append(osd_log, OsdEv("release", btn_hw, enable))
       ELSE UNCHANGED <<enable, osd_log>>
    /\ last_btn' = btn_hw
    /\ irq_flag' = FALSE
    /\ UNCHANGED <<mode, btn_hw, presses, osd_visible, btn_event, pending_btn, notOsdVars>>

(* run(): neither branch; last_btn = btn                                   *)
RunLoopIdle ==
    /\ mode = "polling"
    /\ ~(btn_hw # last_btn /\ btn_hw > 1)
    /\ ~(btn_hw = 0 /\ last_btn # 0)
    /\ last_btn' = btn_hw
    /\ irq_flag' = FALSE
    /\ UNCHANGED <<mode, btn_hw, presses, enable, osd_visible, btn_event, pending_btn,
                   osd_log, notOsdVars>>

RunLoop == RunLoopEvent \/ RunLoopRelease \/ RunLoopIdle

NextOsd ==
    \/ ButtonChange
    \/ IrqHandler
    \/ MainPoll
    \/ RunLoopEvent
    \/ RunLoopRelease
    \/ RunLoopIdle

(* The interrupt is served, the main loop and the while True loop of run() *)
(* keep running; the user is free to leave the buttons alone.              *)
SpecOsd ==
    /\ InitOsd
    /\ [][NextOsd]_vars
    /\ WF_vars(IrqHandler)
    /\ WF_vars(MainPoll)
    /\ WF_vars(RunLoop)

TypeOKOsd ==
    /\ mode \in {"irq", "polling"}
    /\ btn_hw \in Readings
    /\ irq_flag \in BOOLEAN
    /\ presses \in 0..MaxPresses
    /\ enable \in 0..3
    /\ osd_visible = (enable % 2 = 1)
    /\ btn_event \in BOOLEAN
    /\ pending_btn \in Readings
    /\ last_btn \in Readings
    /\ Len(osd_log) <= presses

(***************************************************************************)
(* _irq_handler against the main loop (src/esp32/ld_pdp1.py).  setup_irq    *)
(* registers the handler on the FPGA's interrupt pin; from then on it runs  *)
(* whenever the interrupt is pending, between any two statements of the     *)
(* main loop and to its own end.  Nothing masks the interrupt or locks the  *)
(* bus during a transaction of the main loop.  Both sides use the same cs   *)
(* pin, the same SPI and the module's spi_result buffer.  spi_log holds     *)
(* every pin call and transfer with its context, the state of CS before it, *)
(* and, for the handler, whether a main-loop transaction was in progress.   *)
(***************************************************************************)

(* What the main loop does on the bus while the interrupt is enabled:       *)
(* osd_write_line, _osd_enable_hw, and start_osd's own call of              *)
(* _irq_handler(0), whose two phases are read_irq and read_btn.             *)
MainTransactions == {"osd_write_line", "_osd_enable_hw", "read_irq"}

ReadsResult(cmd) == cmd \in {"read_irq", "read_btn"}

(* The transfers of a transaction: two writes for osd_write_line.           *)
Transfers(cmd) == IF cmd = "osd_write_line" THEN 2 ELSE 1

(* Byte 6 of the answer: bit 7 of the flags is the pending button           *)
(* interrupt; the button read gives the buttons.                            *)
Answer(cmd, flag, btn) == IF cmd = "read_irq" THEN (IF flag THEN 128 ELSE 0) ELSE btn

BusEv(ctx, ev, cmd, cs, by, busy) ==
    [ctx |-> ctx, ev |-> ev, cmd |-> cmd, cs |-> cs, by |-> by, busy |-> busy]

(* start_osd after osd.setup_irq().                                         *)
InitIrq ==
    /\ RimOff
    /\ FbOff
    /\ SlOff
    /\ mode = "irq"
    /\ btn_hw \in {0, 1}
    /\ irq_flag = FALSE
    /\ presses = 0
    /\ enable = 0
    /\ osd_visible = FALSE
    /\ btn_event = FALSE
    /\ pending_btn = 0
    /\ last_btn = 0
    /\ osd_log = <<>>
    /\ upc = "idle"
    /\ attempt = 0
    /\ data_len = 0
    /\ offset = 0
    /\ success = "unset"
    /\ cs_active = FALSE
    /\ tx_enabled = FALSE
    /\ spi_log = <<>>
    /\ outcomes = <<>>
    /\ reset_called = FALSE
    /\ from_file = FALSE
    /\ spi_result = [by |-> "none", cmd |-> "none", val |-> 0]
    /\ main_cmd = "none"

(* The user changes the buttons; the FPGA raises its button interrupt.      *)
ButtonIrq ==
    /\ presses < MaxIrqs
    /\ \E b \in Readings \ {btn_hw} : btn_hw' = b
    /\ irq_flag' = TRUE
    /\ presses' = presses + 1
    /\ UNCHANGED <<mode, enable, osd_visible, btn_event, pending_btn, last_btn, osd_log,
                   notOsdVars>>

(* The main loop starts a transaction: self._cs_active().                   *)
MainCsActive ==
    /\ upc = "idle"
    /\ attempt < MaxMainOps
    /\ \E cmd \in MainTransactions :
          /\ main_cmd' = cmd
          /\ spi_log' = Append(spi_log, BusEv("main", "cs_low", cmd, cs_active, "main", TRUE))
    /\ cs_active' = TRUE
    /\ attempt' = attempt + 1
    /\ offset' = 1
    /\ upc' = "transfer"
    /\ UNCHANGED <<data_len, from_file, success, tx_enabled, outcomes, reset_called,
                   spi_result, osdVars, rimVars, fbVars, slVars>>

(* The second phase of the main loop's _irq_handler(0): bit 7 was set.      *)
MainPhase2 ==
    /\ upc = "phase2"
    /\ main_cmd' = "read_btn"
    /\ spi_log' = Append(spi_log, BusEv("main", "cs_low", "read_btn", cs_active, "main", TRUE))
    /\ cs_active' = TRUE
    /\ offset' = 1
    /\ upc' = "transfer"
    /\ UNCHANGED <<attempt, data_len, from_file, success, tx_enabled, outcomes,
                   reset_called, spi_result, osdVars, rimVars, fbVars, slVars>>

(* self.spi.write(...) or self.spi.write_readinto(cmd, spi_result); the     *)
(* button read clears the FPGA's interrupt.                                 *)
MainTransfer ==
    /\ upc = "transfer"
    /\ spi_log' = Append(spi_log, BusEv("main", "transfer", main_cmd, cs_active, "main", TRUE))
    /\ spi_result' = IF ReadsResult(main_cmd)
                     THEN [by |-> "main", cmd |-> main_cmd,
                           val |-> Answer(main_cmd, irq_flag, btn_hw)]
                     ELSE spi_result
    /\ irq_flag' = IF main_cmd = "read_btn" THEN FALSE ELSE irq_flag
    /\ offset' = offset + 1
    /\ upc' = IF offset < Transfers(main_cmd) THEN "transfer" ELSE "release"
    /\ UNCHANGED <<attempt, data_len, from_file, success, cs_active, tx_enabled, outcomes,
                   reset_called, main_cmd, mode, btn_hw, presses, enable, osd_visible,
                   btn_event, pending_btn, last_btn, osd_log, rimVars, fbVars, slVars>>

(* self._cs_inactive().                                                     *)
MainCsInactive ==
    /\ upc = "release"
    /\ spi_log' = Append(spi_log, BusEv("main", "cs_high", main_cmd, cs_active, "main", TRUE))
    /\ cs_active' = FALSE
    /\ upc' = IF ReadsResult(main_cmd) THEN "result" ELSE "idle"
    /\ UNCHANGED <<attempt, data_len, from_file, offset, success, tx_enabled, outcomes,
                   reset_called, irqVars, osdVars, rimVars, fbVars, slVars>>

(* btn_irq = spi_result[6], or btn = spi_result[6] and the event flags.     *)
MainReadResult ==
    /\ upc = "result"
    /\ spi_log' = Append(spi_log,
                         BusEv("main", "result", main_cmd, cs_active, spi_result.by, TRUE))
    /\ upc' = IF main_cmd = "read_irq" /\ BitAnd(spi_result.val, 128) # 0
              THEN "phase2" ELSE "idle"
    /\ IF main_cmd = "read_btn" /\ spi_result.val > 1
       THEN pending_btn' = spi_result.val /\ btn_event' = TRUE
       ELSE UNCHANGED <<pending_btn, btn_event>>
    /\ UNCHANGED <<attempt, data_len, from_file, offset, success, cs_active, tx_enabled,
                   outcomes, reset_called, irqVars, mode, btn_hw, irq_flag, presses,
                   enable, osd_visible, last_btn, osd_log, rimVars, fbVars, slVars>>

(* The events of one handler run: the flag read and the button read, each   *)
(* cs_low, write_readinto, cs_high.  Only the first cs_low may find CS      *)
(* active.                                                                  *)
IsrEvents(cs, busy) ==
    <<BusEv("irq", "cs_low", "read_irq", cs, "irq", busy),
      BusEv("irq", "transfer", "read_irq", TRUE, "irq", busy),
      BusEv("irq", "cs_high", "read_irq", TRUE, "irq", busy),
      BusEv("irq", "cs_low", "read_btn", FALSE, "irq", busy),
      BusEv("irq", "transfer", "read_btn", TRUE, "irq", busy),
      BusEv("irq", "cs_high", "read_btn", TRUE, "irq", busy)>>

(* _irq_handler run by the interrupt: it runs to its end wherever the main  *)
(* loop stands.                                                             *)
IsrRun ==
    /\ mode = "irq"
    /\ irq_flag
    /\ spi_log' = spi_log \o IsrEvents(cs_active, upc # "idle")
    /\ cs_active' = FALSE
    /\ spi_result' = [by |-> "irq", cmd |-> "read_btn", val |-> btn_hw]
    /\ irq_flag' = FALSE
    /\ IF btn_hw > 1
       THEN pending_btn' = btn_hw /\ btn_event' = TRUE
       ELSE UNCHANGED <<pending_btn, btn_event>>
    /\ UNCHANGED <<upc, attempt, data_len, from_file, offset, success, tx_enabled,
                   outcomes, reset_called, main_cmd, mode, btn_hw, presses, enable,
                   osd_visible, last_btn, osd_log, rimVars, fbVars, slVars>>

NextIrq ==
    \/ ButtonIrq
    \/ IsrRun
    \/ MainCsActive
    \/ MainPhase2
    \/ MainTransfer
    \/ MainCsInactive
    \/ MainReadResult

SpecIrq == InitIrq /\ [][NextIrq]_vars

TypeOKIrq ==
    /\ upc \in {"idle", "transfer", "release", "result", "phase2"}
    /\ attempt \in 0..MaxMainOps
    /\ main_cmd \in MainTransactions \cup {"none", "read_btn"}
    /\ spi_result.by \in {"none", "main", "irq"}
    /\ presses \in 0..MaxIrqs

(***************************************************************************)
(* OsdController.load_file (src/esp32/ld_pdp1.py): the SPI bus shares its   *)
(* pins with the SD card, so the SPI is given up, the card is mounted, the  *)
(* file is read, and the SPI is taken back before the FPGA is talked to.    *)
(* self_spi is "ready" when self.spi is an SPI instance, "none" when it is  *)
(* None.  fb_log is the log of the SPI and OSD commands issued, each with   *)
(* the state of self.spi at the moment it was issued.                       *)
(***************************************************************************)

MOUNT_ATTEMPTS == 3

(* The file types load_file dispatches on (endswith), and any other name.  *)
LoadableExts == {"bit", "rim", "bin", "hex"}

Exts == LoadableExts \cup {"other"}

init_spi_ReturnsNone == "none"

(* init_spi(): a fresh SPI instance and chip select.                        *)
init_spi == "ready"

(* One SPI/OSD command, logged with the state of self.spi when issued.     *)
Issue(cmds, c, spi) == Append(cmds, [cmd |-> c, spi |-> spi])

(* The error tail shared by the failure branches: init_spi(), OSD back on,  *)
(* the message on line 15, return.                                         *)
ErrorReturn(msg) ==
    /\ self_spi' = init_spi
    /\ fb_log' = Issue(Issue(fb_log, "osd_enable_hw 1", init_spi), msg, init_spi)
    /\ enable' = 1
    /\ osd_visible' = TRUE
    /\ fpc' = "return"

(* select_entry() calls load_file(fname) from the shown menu.              *)
InitLoadFile ==
    /\ RimOff
    /\ LdOff
    /\ SlOff
    /\ IrqOff
    /\ mode = "off"
    /\ btn_hw = 0
    /\ irq_flag = FALSE
    /\ presses = 0
    /\ enable = 1
    /\ osd_visible = TRUE
    /\ btn_event = FALSE
    /\ pending_btn = 0
    /\ last_btn = 0
    /\ osd_log = <<>>
    /\ fpc = "call"
    /\ self_spi = "ready"
    /\ fname_ext \in Exts
    /\ is_sd_file \in BOOLEAN
    /\ mount_attempt = 0
    /\ fb_log = <<>>
    /\ listing = <<>>
    /\ li = 0
    /\ new_entries = <<>>
    /\ direntries = <<>>

(* osd_write_line(15, "Loading ..."), issued before the SPI is given up.   *)
LfLoading ==
    /\ fpc = "call"
    /\ fb_log' = Issue(fb_log, "Loading", self_spi)
    /\ fpc' = "deinit"
    /\ UNCHANGED <<self_spi, fname_ext, is_sd_file, mount_attempt, listing, li,
                   new_entries, direntries, enable, osd_visible, notBrowserVars>>

(* self.spi.deinit(); self.spi = None; _spi_instance = None.                *)
LfDeinit ==
    /\ fpc = "deinit"
    /\ self_spi' = "none"
    /\ fpc' = IF is_sd_file THEN "mount" ELSE "dispatch"
    /\ UNCHANGED <<fname_ext, is_sd_file, mount_attempt, fb_log, listing, li,
                   new_entries, direntries, enable, osd_visible, notBrowserVars>>

(* One pass of "for attempt in range(3)": SDCard(slot=3), os.mount.        *)
LfMountTry ==
    /\ fpc = "mount"
    /\ mount_attempt < MOUNT_ATTEMPTS
    /\ \E ok \in BOOLEAN :
          /\ fpc' = IF ok THEN "dispatch" ELSE "mount"
          /\ mount_attempt' = IF ok THEN mount_attempt ELSE mount_attempt + 1
    /\ UNCHANGED <<self_spi, fname_ext, is_sd_file, fb_log, listing, li,
                   new_entries, direntries, enable, osd_visible, notBrowserVars>>

(* "if not sd_ok": SPI back, "SD ERROR!", return.                          *)
LfMountFailed ==
    /\ fpc = "mount"
    /\ mount_attempt = MOUNT_ATTEMPTS
    /\ ErrorReturn("SD ERROR!")
    /\ UNCHANGED <<fname_ext, is_sd_file, mount_attempt, listing, li,
                   new_entries, direntries, notBrowserVars>>

(* The .bit branch: OSD state off, ecp5.prog(fullpath) in a try; on success *)
(* init_spi() and _osd_enable_hw(0), on an exception the error tail.        *)
LfBit ==
    /\ fpc = "dispatch"
    /\ fname_ext = "bit"
    /\ \E raises \in BOOLEAN :
          IF raises
          THEN ErrorReturn("LOAD ERROR!")
          ELSE /\ self_spi' = init_spi
               /\ fb_log' = Issue(fb_log, "osd_enable_hw 0", init_spi)
               /\ enable' = 0
               /\ osd_visible' = FALSE
               /\ fpc' = "return"
    /\ UNCHANGED <<fname_ext, is_sd_file, mount_attempt, listing, li,
                   new_entries, direntries, notBrowserVars>>

(* The .rim/.bin and .hex branches start alike: OSD state off, then the     *)
(* file is read with the SD still mounted.                                  *)
LfOpen ==
    /\ fpc = "dispatch"
    /\ fname_ext \in {"rim", "bin", "hex"}
    /\ enable' = 0
    /\ osd_visible' = FALSE
    /\ fpc' = "read"
    /\ UNCHANGED <<self_spi, fname_ext, is_sd_file, mount_attempt, fb_log, listing, li,
                   new_entries, direntries, notBrowserVars>>

(* The read raises: SPI back, "READ FAILED!", return.                      *)
LfReadFailed ==
    /\ fpc = "read"
    /\ ErrorReturn("READ FAILED!")
    /\ UNCHANGED <<fname_ext, is_sd_file, mount_attempt, listing, li,
                   new_entries, direntries, notBrowserVars>>

(* The read succeeds: unmount, release the pins, init_spi(), and            *)
(* _osd_enable_hw(0).                                                       *)
LfReadOk ==
    /\ fpc = "read"
    /\ self_spi' = init_spi
    /\ fb_log' = Issue(fb_log, "osd_enable_hw 0", init_spi)
    /\ fpc' = "upload"
    /\ UNCHANGED <<fname_ext, is_sd_file, mount_attempt, listing, li,
                   new_entries, direntries, enable, osd_visible, notBrowserVars>>

(* ld_pdp1(self.spi, self.cs).load_and_run_from_bytes(...): it returns True *)
(* or resets the ESP32 (see the upload model), so "if not result" is dead.  *)
LfUpload ==
    /\ fpc = "upload"
    /\ fb_log' = Issue(fb_log, "load_and_run_from_bytes", self_spi)
    /\ \E result \in {"True", "reset"} :
          fpc' = IF result = "True" THEN "return" ELSE "reset"
    /\ UNCHANGED <<self_spi, fname_ext, is_sd_file, mount_attempt, listing, li,
                   new_entries, direntries, enable, osd_visible, notBrowserVars>>

(* No branch of the if/elif chain matches the name: load_file falls off its *)
(* end.                                                                     *)
LfNoBranch ==
    /\ fpc = "dispatch"
    /\ fname_ext \notin LoadableExts
    /\ fpc' = "return"
    /\ UNCHANGED <<self_spi, fname_ext, is_sd_file, mount_attempt, fb_log, listing, li,
                   new_entries, direntries, enable, osd_visible, notBrowserVars>>

NextLoadFile ==
    \/ LfLoading
    \/ LfDeinit
    \/ LfMountTry
    \/ LfMountFailed
    \/ LfBit
    \/ LfOpen
    \/ LfReadFailed
    \/ LfReadOk
    \/ LfUpload
    \/ LfNoBranch

SpecLoadFile == InitLoadFile /\ [][NextLoadFile]_vars

TypeOKLoadFile ==
    /\ fpc \in {"call", "deinit", "mount", "dispatch", "read", "upload", "return", "reset"}
    /\ self_spi \in {"ready", "none"}
    /\ fname_ext \in Exts
    /\ mount_attempt \in 0..MOUNT_ATTEMPTS
    /\ enable \in {0, 1}
    /\ osd_visible = (enable = 1)

(***************************************************************************)
(* OsdController.read_dir_safe (src/esp32/ld_pdp1.py): the SPI is given up, *)
(* the SD card is remounted, cwd is listed into direntries, and the SPI is  *)
(* taken back.  A name is modelled by its rank in Python's string order;    *)
(* FileNames gives the names in that order.  fb_log holds what the method   *)
(* prints about its outcome.                                                *)
(***************************************************************************)

MaxListing == 3

FileNames == <<"games", "notes.txt", "snow.hex", "war.rim">>

(* os.stat(fullpath)[0] & 0o170000 == 0o040000.                             *)
IsDir(n) == FileNames[n] = "games"

(* The ending fname.endswith() tests.                                       *)
ExtOf(n) ==
    CASE FileNames[n] = "snow.hex" -> "hex"
      [] FileNames[n] = "war.rim" -> "rim"
      [] OTHER -> "other"

(* stat[6], the size of the file.                                           *)
SizeOf(n) == 6 * n

(* The entry appended for a name: [fname, 1, 0] or [fname, 0, size].        *)
DirEntry(n) ==
    IF IsDir(n) THEN <<FileNames[n], 1, 0>> ELSE <<FileNames[n], 0, SizeOf(n)>>

(* Directories are always listed, files only with one of the four endings. *)
Listed(n) == IsDir(n) \/ ExtOf(n) \in LoadableExts

RECURSIVE InsertSorted(_, _)
InsertSorted(seq, n) ==
    IF seq = <<>> THEN <<n>>
    ELSE IF n <= Head(seq) THEN <<n>> \o seq
    ELSE <<Head(seq)>> \o InsertSorted(Tail(seq), n)

sorted_Identity(seq) == seq

(* sorted(os.listdir(self.cwd)).                                            *)
RECURSIVE sorted(_)
sorted(seq) ==
    IF seq = <<>> THEN <<>>
    ELSE InsertSorted(sorted(Tail(seq)), Head(seq))

(* What os.listdir may return: some of the names, each once, in any order. *)
Listings ==
    UNION {{q \in [1..k -> 1..Len(FileNames)] :
               \A a, b \in 1..k : a # b => q[a] # q[b]} : k \in 0..MaxListing}

(* The cache left by an earlier listing.                                    *)
CachedEntries == {<<>>, <<<<"old.bin", 0, 12>>>>}

(* A line the method prints, with the name it is about (0: none).           *)
Printed(msg, n) == [cmd |-> msg, spi |-> self_spi, name |-> n]

(* refresh_dir(), select_entry() or updir() calls read_dir_safe().          *)
InitReadDir ==
    /\ RimOff
    /\ LdOff
    /\ SlOff
    /\ IrqOff
    /\ mode = "off"
    /\ btn_hw = 0
    /\ irq_flag = FALSE
    /\ presses = 0
    /\ enable = 1
    /\ osd_visible = TRUE
    /\ btn_event = FALSE
    /\ pending_btn = 0
    /\ last_btn = 0
    /\ osd_log = <<>>
    /\ fpc = "rd_call"
    /\ self_spi = "ready"
    /\ fname_ext = "none"
    /\ is_sd_file = TRUE
    /\ mount_attempt = 0
    /\ fb_log = <<>>
    /\ listing \in Listings
    /\ li = 0
    /\ new_entries = <<>>
    /\ direntries \in CachedEntries

(* Steps 1 to 4: SPI deinit, self.spi = None, pins released, umount.        *)
RdDeinit ==
    /\ fpc = "rd_call"
    /\ self_spi' = "none"
    /\ fpc' = "rd_mount"
    /\ UNCHANGED <<fname_ext, is_sd_file, mount_attempt, fb_log, listing, li,
                   new_entries, direntries, enable, osd_visible, notBrowserVars>>

(* Step 5, one pass of "for attempt in range(3)".                           *)
RdMountTry ==
    /\ fpc = "rd_mount"
    /\ mount_attempt < MOUNT_ATTEMPTS
    /\ \E ok \in BOOLEAN :
          /\ fpc' = IF ok THEN "rd_list" ELSE "rd_mount"
          /\ mount_attempt' = IF ok THEN mount_attempt ELSE mount_attempt + 1
    /\ UNCHANGED <<self_spi, fname_ext, is_sd_file, fb_log, listing, li,
                   new_entries, direntries, enable, osd_visible, notBrowserVars>>

(* "if not sd_ok": the cache is kept, init_spi(), return.                   *)
RdMountFailed ==
    /\ fpc = "rd_mount"
    /\ mount_attempt = MOUNT_ATTEMPTS
    /\ fb_log' = Append(fb_log, Printed("SD mount FAILED", 0))
    /\ self_spi' = init_spi
    /\ fpc' = "rd_return"
    /\ UNCHANGED <<fname_ext, is_sd_file, mount_attempt, listing, li,
                   new_entries, direntries, enable, osd_visible, notBrowserVars>>

(* Step 6: new_entries = []; ls = sorted(os.listdir(self.cwd)), which may   *)
(* raise.  From here on listing holds ls.                                   *)
RdListdir ==
    /\ fpc = "rd_list"
    /\ \E raises \in BOOLEAN :
          IF raises
          THEN /\ fb_log' = Append(fb_log, Printed("Step 6 ERROR", 0))
               /\ fpc' = "rd_reinit"
               /\ UNCHANGED <<listing, li>>
          ELSE /\ listing' = sorted(listing)
               /\ li' = 1
               /\ fpc' = "rd_stat"
               /\ UNCHANGED fb_log
    /\ new_entries' = <<>>
    /\ UNCHANGED <<self_spi, fname_ext, is_sd_file, mount_attempt,
                   direntries, enable, osd_visible, notBrowserVars>>

(* One pass of "for fname in ls": os.stat in its own try; a directory or a  *)
(* file with a listed ending is appended; a stat error skips the name.      *)
RdStat ==
    /\ fpc = "rd_stat"
    /\ li <= Len(listing)
    /\ \E raises \in BOOLEAN :
          IF raises
          THEN /\ fb_log' = Append(fb_log, Printed("stat error", listing[li]))
               /\ UNCHANGED new_entries
          ELSE /\ new_entries' = IF Listed(listing[li])
                                 THEN Append(new_entries, DirEntry(listing[li]))
                                 ELSE new_entries
               /\ UNCHANGED fb_log
    /\ li' = li + 1
    /\ UNCHANGED <<fpc, self_spi, fname_ext, is_sd_file, mount_attempt, listing,
                   direntries, enable, osd_visible, notBrowserVars>>

(* After the loop: self.direntries = new_entries.                           *)
RdAssign ==
    /\ fpc = "rd_stat"
    /\ li > Len(listing)
    /\ direntries' = new_entries
    /\ fb_log' = Append(fb_log, Printed("Step 6 OK", 0))
    /\ fpc' = "rd_reinit"
    /\ UNCHANGED <<self_spi, fname_ext, is_sd_file, mount_attempt, listing, li,
                   new_entries, enable, osd_visible, notBrowserVars>>

(* Step 7: self.spi, self.cs = init_spi().                                  *)
RdReinit ==
    /\ fpc = "rd_reinit"
    /\ self_spi' = init_spi
    /\ fpc' = "rd_return"
    /\ UNCHANGED <<fname_ext, is_sd_file, mount_attempt, fb_log, listing, li,
                   new_entries, direntries, enable, osd_visible, notBrowserVars>>

NextReadDir ==
    \/ RdDeinit
    \/ RdMountTry
    \/ RdMountFailed
    \/ RdListdir
    \/ RdStat
    \/ RdAssign
    \/ RdReinit

SpecReadDir == InitReadDir /\ [][NextReadDir]_vars

TypeOKReadDir ==
    /\ fpc \in {"rd_call", "rd_mount", "rd_list", "rd_stat", "rd_reinit", "rd_return"}
    /\ self_spi \in {"ready", "none"}
    /\ mount_attempt \in 0..MOUNT_ATTEMPTS
    /\ listing \in Listings
    /\ li \in 0..(Len(listing) + 1)
    /\ Len(new_entries) <= Len(listing)

(***************************************************************************)
(* tools/serial_loader.py: main() takes its command line, opens the serial  *)
(* port and either sends one command or loads a HEX file into the PDP-1.    *)
(* ser_log is what was written to the port; ping_rsp is the byte read back  *)
(* after the ping ("" for a timeout).                                       *)
(***************************************************************************)

MaxLines == 2

RSP_OK == "K"

None == -1

(* Lines a HEX file may hold: a word, a word with an inline comment, a      *)
(* comment, an empty line, and text that is no hexadecimal number.          *)
HexLineTexts == {"740400", "600001 ; jmp 1", "# comment", "", "lio 400"}

(* parse_hex_line(line): the 18-bit word of the line, or None.              *)
parse_hex_line(line) ==
    CASE line = "" -> None
      [] line = "# comment" -> None
      [] line = "740400" -> \H740400 % 262144
      [] line = "600001 ; jmp 1" -> \H600001 % 262144
      [] line = "lio 400" -> None

HexFiles == UNION {[1..k -> HexLineTexts] : k \in 0..MaxLines}

(* The parsed command line.  file tells whether the positional file is      *)
(* given; set_address and set_word whether the option is given.            *)
ArgSets ==
    [ping : BOOLEAN, stop : BOOLEAN, set_address : BOOLEAN, set_word : BOOLEAN,
     run : BOOLEAN, no_run : BOOLEAN, file : BOOLEAN, start_address : {0, 64}]

(* One command written to the serial port.                                  *)
SerCmd(c, addr, data) == [cmd |-> c, addr |-> addr % 4096, data |-> data % 262144]

ping_AlwaysTrue(response) == TRUE

(* ping(ser): True when the byte read back is RSP_OK.                       *)
ping(response) == response = RSP_OK

(* main() after parse_args() and connect().                                 *)
InitSerial ==
    /\ RimOff
    /\ LdOff
    /\ OsdOff
    /\ FbOff
    /\ IrqOff
    /\ spc = "main"
    /\ args \in ArgSets
    /\ hex_file \in HexFiles
    /\ ~args.file => hex_file = <<>>
    /\ line_no = 0
    /\ words_loaded = 0
    /\ ping_rsp = "none"
    /\ ser_log = <<>>

(* "if args.ping: ping(ser); return".                                       *)
SlPingOnly ==
    /\ spc = "main"
    /\ args.ping
    /\ ser_log' = Append(ser_log, SerCmd("P", 0, 0))
    /\ ping_rsp' \in {RSP_OK, ""}
    /\ spc' = "closed"
    /\ UNCHANGED <<args, hex_file, line_no, words_loaded, notSlVars>>

(* "if args.stop: stop_cpu(ser); return".                                   *)
SlStopOnly ==
    /\ spc = "main"
    /\ ~args.ping
    /\ args.stop
    /\ ser_log' = Append(ser_log, SerCmd("S", 0, 0))
    /\ spc' = "closed"
    /\ UNCHANGED <<args, hex_file, line_no, words_loaded, ping_rsp, notSlVars>>

(* "if args.set_address: set_test_address(ser, addr); return".              *)
SlSetAddressOnly ==
    /\ spc = "main"
    /\ ~args.ping
    /\ ~args.stop
    /\ args.set_address
    /\ ser_log' = Append(ser_log, SerCmd("A", 64, 0))
    /\ spc' = "closed"
    /\ UNCHANGED <<args, hex_file, line_no, words_loaded, ping_rsp, notSlVars>>

(* "if args.set_word: set_test_word(ser, word); return".                    *)
SlSetWordOnly ==
    /\ spc = "main"
    /\ ~args.ping
    /\ ~args.stop
    /\ ~args.set_address
    /\ args.set_word
    /\ ser_log' = Append(ser_log, SerCmd("W", 0, 262143))
    /\ spc' = "closed"
    /\ UNCHANGED <<args, hex_file, line_no, words_loaded, ping_rsp, notSlVars>>

(* None of the four options above is given.                                 *)
NoSingleCommand ==
    ~args.ping /\ ~args.stop /\ ~args.set_address /\ ~args.set_word

(* "if args.run and not args.file: run_cpu(ser); return".                   *)
SlRunOnly ==
    /\ spc = "main"
    /\ NoSingleCommand
    /\ args.run
    /\ ~args.file
    /\ ser_log' = Append(ser_log, SerCmd("R", 0, 0))
    /\ spc' = "closed"
    /\ UNCHANGED <<args, hex_file, line_no, words_loaded, ping_rsp, notSlVars>>

(* No file and nothing to do: parser.print_help().                          *)
SlHelp ==
    /\ spc = "main"
    /\ NoSingleCommand
    /\ ~args.run
    /\ ~args.file
    /\ spc' = "closed"
    /\ UNCHANGED <<args, hex_file, line_no, words_loaded, ping_rsp, ser_log, notSlVars>>

(* "if args.file: if not ping(ser): sys.exit(1)".                           *)
SlPing ==
    /\ spc = "main"
    /\ NoSingleCommand
    /\ args.file
    /\ ser_log' = Append(ser_log, SerCmd("P", 0, 0))
    /\ \E response \in {RSP_OK, ""} :
          /\ ping_rsp' = response
          /\ spc' = IF ping(response) THEN "stop" ELSE "exit"
    /\ UNCHANGED <<args, hex_file, line_no, words_loaded, notSlVars>>

(* stop_cpu(ser), then load_hex_file() opens the file.                      *)
SlStop ==
    /\ spc = "stop"
    /\ ser_log' = Append(ser_log, SerCmd("S", 0, 0))
    /\ line_no' = 1
    /\ spc' = "load"
    /\ UNCHANGED <<args, hex_file, words_loaded, ping_rsp, notSlVars>>

(* One line of the file: parse_hex_line, and load_word for a word.          *)
SlLoadLine ==
    /\ spc = "load"
    /\ line_no <= Len(hex_file)
    /\ LET word == parse_hex_line(hex_file[line_no]) IN
          IF word # None
          THEN /\ ser_log' = Append(ser_log,
                                    SerCmd("L", args.start_address + words_loaded, word))
               /\ words_loaded' = words_loaded + 1
          ELSE UNCHANGED <<ser_log, words_loaded>>
    /\ line_no' = line_no + 1
    /\ UNCHANGED <<spc, args, hex_file, ping_rsp, notSlVars>>

(* The file cannot be opened or read: sys.exit(1).                          *)
SlFileError ==
    /\ spc = "load"
    /\ line_no <= Len(hex_file) + 1
    /\ spc' = "exit"
    /\ UNCHANGED <<args, hex_file, line_no, words_loaded, ping_rsp, ser_log, notSlVars>>

(* After load_hex_file: "if words > 0": set_test_address, and run_cpu       *)
(* unless --no-run.                                                         *)
SlFinish ==
    /\ spc = "load"
    /\ line_no = Len(hex_file) + 1
    /\ ser_log' =
          IF words_loaded > 0
          THEN IF ~args.no_run
               THEN ser_log \o <<SerCmd("A", args.start_address, 0), SerCmd("R", 0, 0)>>
               ELSE Append(ser_log, SerCmd("A", args.start_address, 0))
          ELSE ser_log
    /\ spc' = "closed"
    /\ UNCHANGED <<args, hex_file, line_no, words_loaded, ping_rsp, notSlVars>>

NextSerial ==
    \/ SlPingOnly
    \/ SlStopOnly
    \/ SlSetAddressOnly
    \/ SlSetWordOnly
    \/ SlRunOnly
    \/ SlHelp
    \/ SlPing
    \/ SlStop
    \/ SlLoadLine
    \/ SlFileError
    \/ SlFinish

SpecSerial == InitSerial /\ [][NextSerial]_vars

TypeOKSerial ==
    /\ spc \in {"main", "stop", "load", "closed", "exit"}
    /\ args \in ArgSets
    /\ hex_file \in HexFiles
    /\ line_no \in 0..(Len(hex_file) + 1)
    /\ words_loaded \in 0..Len(hex_file)
    /\ ping_rsp \in {"none", RSP_OK, ""}
    /\ \A k \in 1..Len(ser_log) : ser_log[k].cmd \in {"P", "S", "L", "A", "R", "W"}

TypeOK ==
    /\ pc \in {"read", "extract", "decode", "simulate", "simple", "done", "hex", "raised"}
    /\ pos \in 0..Len(rim_bytes)
    /\ i \in 0..(Len(words) + 1)

(***************************************************************************)
(* Views of the trace used by the properties.                              *)
(***************************************************************************)
IsJmpEvent(e) == e.kind \in {"InitJMP", "BootJMP"}

JmpEvents(lg) == SelectSeq(lg, IsJmpEvent)

IsWriteEvent(e) == e.kind \in {"InitDIO", "BootDIO", "BootImplicit"}

Writes(lg) == SelectSeq(lg, IsWriteEvent)

Decoding == pc \in {"simulate", "done"}

BulkCount(ws) == Address(ws[2]) - Address(ws[1])

IsBulkHeader(ws) ==
    /\ Len(ws) >= 2
    /\ Opcode(ws[1]) = DIO_OPCODE
    /\ Opcode(ws[2]) = DIO_OPCODE
    /\ 0 < BulkCount(ws)
    /\ BulkCount(ws) <= Len(ws) - 2

BulkImage(ws) ==
    [a \in {Address(ws[1]) + k : k \in 0..(BulkCount(ws) - 1)} |->
        ws[3 + (a - Address(ws[1]))]]

OneBlock(bytes) == \A k \in 1..Len(bytes) : bytes[k] >= 128

C3Tape ==
    EncodeWord(DIO200) \o EncodeWord(Data777000) \o <<0>> \o EncodeWord(JMP200)

PairAddrs == {\o200, \o201}

PairLists(n) ==
    {ps \in [1..n -> PairAddrs \X TapeWords] :
        \A j, k \in 1..n : j # k => ps[j][1] # ps[k][1]}

RECURSIVE PairedTape(_)
PairedTape(ps) ==
    IF ps = <<>> THEN <<>>
    ELSE EncodeWord(DIO_OPCODE * 4096 + Head(ps)[1]) \o EncodeWord(Head(ps)[2])
            \o PairedTape(Tail(ps))

MapOf(ps) ==
    [a \in {ps[k][1] : k \in 1..Len(ps)} |->
        ps[CHOOSE k \in 1..Len(ps) : ps[k][1] = a][2]]

C4_PairedRoundTrip ==
    (pc = "done" /\ Len(rim_bytes) % 6 = 0)
        => \A ps \in PairLists(Len(rim_bytes) \div 6) :
              rim_bytes = PairedTape(ps) => memory = MapOf(ps)

C4_Witness ==
    /\ pc = "done"
    /\ rim_bytes = PairedTape(<<<<\o201, JMP200>>, <<\o200, DIO201>>>>)
    /\ memory = (\o200 :> DIO201) @@ (\o201 :> JMP200)
(***************************************************************************)
(* C5 (as stated): a run of 1 or 2 data bytes bounded by filler or by the  *)
(* stream ends contributes no word: deleting every such run from the tape  *)
(* leaves the decoded Memory Image and start address unchanged.            *)
(***************************************************************************)
KeepRun(run) == IF Len(run) >= 3 THEN run ELSE <<>>

RECURSIVE DropShortRunsFrom(_, _, _, _)
DropShortRunsFrom(bytes, k, run, acc) ==
    IF k > Len(bytes) THEN acc \o KeepRun(run)
    ELSE IF bytes[k] >= 128
         THEN DropShortRunsFrom(bytes, k + 1, Append(run, bytes[k]), acc)
         ELSE DropShortRunsFrom(bytes, k + 1, <<>>, (acc \o KeepRun(run)) \o <<bytes[k]>>)

DropShortRuns(bytes) == DropShortRunsFrom(bytes, 1, <<>>, <<>>)

HasBit7(b) == b >= 128

DropFiller(bytes) == SelectSeq(bytes, HasBit7)

C6_NeverRaises ==
    /\ pc # "raised"
    /\ (pc = "extract" /\ pos < Len(rim_bytes) => Index(rim_bytes, pos) # IndexError)
    /\ (pc = "decode" /\ DecodeCond(data_bytes, di) => DecodeReadsOk(data_bytes, di))
    /\ (pc = "simulate" /\ i < Len(words) =>
            /\ Index(words, i) # IndexError
            /\ ~Body(words, Cur).raised)

C6_Witness ==
    /\ pc = "done"
    /\ Len(data_bytes) % 3 # 0
    /\ Len(words) > 0
    /\ Opcode(words[Len(words)]) = DIO_OPCODE
    /\ log[Len(log)].kind \in {"InitDIOLast", "BootDIOLast"}
    /\ log[Len(log)].index = Len(words) - 1

(***************************************************************************)
(* C7: in every state of a decode every key of the Memory Image is in      *)
(* 0..4095, every stored value is in 0..0x3FFFF and the start address is   *)
(* in 0..4095.                                                             *)
(***************************************************************************)
C7_Ranges ==
    /\ \A a \in DOMAIN memory : a \in 0..4095 /\ memory[a] \in 0..\H3FFFF
    /\ start_address \in 0..4095

C7_Witness ==
    /\ pc = "done"
    /\ \E k \in 1..Len(rim_bytes) : rim_bytes[k] = StrayByte
    /\ \E a \in DOMAIN memory : memory[a] \div 4096 = DIO_OPCODE /\ memory[a] \notin TapeWords
    /\ \E a \in DOMAIN memory : memory[a] = \o327770

(***************************************************************************)
(* C8: the dense output has exactly 4096 entries, one per address 0..4095  *)
(* in increasing order; entry i is 5 upper-case hexadecimal digits whose   *)
(* value is the Memory Image value at address i when i is mapped and 0     *)
(* otherwise, and no entry exceeds 0xFFFFF.                                *)
(***************************************************************************)
HexValue(c) == (CHOOSE d \in 1..16 : HexChars[d] = c) - 1

RECURSIVE ParseHex(_)
ParseHex(str) ==
    IF str = <<>> THEN 0
    ELSE 16 * ParseHex(SubSeq(str, 1, Len(str) - 1)) + HexValue(str[Len(str)])

C8_DenseOutput ==
    pc = "hex" =>
        /\ Len(hex_lines) = 4096
        /\ \A a \in 0..4095 :
              /\ Len(hex_lines[a + 1]) = 5
              /\ \A k \in 1..5 : \E d \in 1..16 : hex_lines[a + 1][k] = HexChars[d]
              /\ ParseHex(hex_lines[a + 1]) = (IF a \in DOMAIN memory THEN memory[a] ELSE 0)
              /\ ParseHex(hex_lines[a + 1]) <= \HFFFFF

C8_Witness ==
    /\ pc = "hex"
    /\ memory = (\o200 :> \o777000)
    /\ hex_lines[\o200 + 1] = <<"3", "F", "E", "0", "0">>
    /\ hex_lines[\o200] = <<"0", "0", "0", "0", "0">>
    /\ hex_lines[4096] = <<"0", "0", "0", "0", "0">>

(***************************************************************************)
(* C9: last write wins.  At every point of a decode the Memory Image holds *)
(* exactly the addresses written so far, each with the data of the latest  *)
(* write to it in tape order; a write to another address never changes it. *)
(***************************************************************************)
LastWriteTo(W, a) ==
    W[CHOOSE k \in 1..Len(W) :
        W[k].address = a /\ \A j \in (k + 1)..Len(W) : W[j].address # a].data

C9_LastWriteWins ==
    LET W == Writes(log) IN
    /\ DOMAIN memory = {W[k].address : k \in 1..Len(W)}
    /\ \A a \in DOMAIN memory : memory[a] = LastWriteTo(W, a)

C9_Witness ==
    LET W == Writes(log) IN
    /\ pc = "done"
    /\ Len(W) = 2
    /\ W[1].address = W[2].address
    /\ W[1].data # W[2].data
    /\ memory[W[1].address] = W[2].data

(***************************************************************************)
(* C10 (as stated): for a tape of two blocks of whole words separated by   *)
(* filler, each ending in a JMP word, with different JMP addresses, and    *)
(* whatever words precede the JMP in each block, the start address is the  *)
(* address of the JMP that ends the second block.                          *)
(***************************************************************************)
IsFiller(b) == b < 128

FirstFiller(bytes) == CHOOSE k \in 1..Len(bytes) : IsFiller(bytes[k]) /\ \A j \in 1..(k - 1) : ~IsFiller(bytes[j])

LastFiller(bytes) == CHOOSE k \in 1..Len(bytes) : IsFiller(bytes[k]) /\ \A j \in (k + 1)..Len(bytes) : ~IsFiller(bytes[j])

Block1(bytes) == SubSeq(bytes, 1, FirstFiller(bytes) - 1)

Block2(bytes) == SubSeq(bytes, LastFiller(bytes) + 1, Len(bytes))

BlockEndsInJmp(blk) ==
    /\ Len(blk) >= 3
    /\ Len(blk) % 3 = 0
    /\ blk[Len(blk) - 2] = 128 + JMP_OPCODE

BlockJmpAddress(blk) == (blk[Len(blk) - 1] - 128) * 64 + (blk[Len(blk)] - 128)

TwoJmpBlocks(bytes) ==
    /\ \E k \in 1..Len(bytes) : IsFiller(bytes[k])
    /\ \A k \in FirstFiller(bytes)..LastFiller(bytes) : IsFiller(bytes[k])
    /\ BlockEndsInJmp(Block1(bytes))
    /\ BlockEndsInJmp(Block2(bytes))
    /\ BlockJmpAddress(Block1(bytes)) # BlockJmpAddress(Block2(bytes))

C10_LaterBlockJmpWins ==
    (pc = "done" /\ TwoJmpBlocks(rim_bytes))
        => start_address = BlockJmpAddress(Block2(rim_bytes))

(***************************************************************************)
(* C10 (amended): for a tape of two blocks of whole words separated by     *)
(* filler, each ending in a JMP word, with different JMP addresses, the    *)
(* start address is the address of the JMP that ends the second block      *)
(* provided both of these JMP words are processed as instructions, that    *)
(* is, neither is consumed as the data word of the DIO or of the implicit  *)
(* deposit before it.                                                      *)
(***************************************************************************)
JmpProcessedAt(idx) ==
    \E k \in 1..Len(log) : log[k].index = idx /\ IsJmpEvent(log[k])

C10_LaterInstructionJmpWins ==
    (/\ pc = "done"
     /\ TwoJmpBlocks(rim_bytes)
     /\ JmpProcessedAt((Len(Block1(rim_bytes)) \div 3) - 1)
     /\ JmpProcessedAt(Len(words) - 1))
        => start_address = BlockJmpAddress(Block2(rim_bytes))

C10_Witness ==
    /\ pc = "done"
    /\ TwoJmpBlocks(rim_bytes)
    /\ Len(Block1(rim_bytes)) = 6
    /\ JmpProcessedAt(1)
    /\ JmpProcessedAt(Len(words) - 1)
    /\ Len(words) = 3
    /\ start_address = \o201
(***************************************************************************)
(* C11 (as stated): a block that starts with two DIO words whose count is  *)
(* not within 0 < count <= len(words) - 2 is decoded by the paired rule:   *)
(* its second word is stored at its first word's address, no instruction   *)
(* is read from its second word, and decoding continues at its third word. *)
(* Stated for the last block of a tape whose blocks are whole words.       *)
(***************************************************************************)
HasFiller(bytes) == \E k \in 1..Len(bytes) : IsFiller(bytes[k])

LastBlockStart(bytes) == IF HasFiller(bytes) THEN LastFiller(bytes) + 1 ELSE 1

LastBlock(bytes) == SubSeq(bytes, LastBlockStart(bytes), Len(bytes))

LastBlockWords(bytes) == decode_18bit_words(extract_data_bytes(LastBlock(bytes)))

DataBefore(bytes) == Len(DropFiller(SubSeq(bytes, 1, LastBlockStart(bytes) - 1)))

NotBulkHeader(ws) ==
    /\ Len(ws) >= 2
    /\ Opcode(ws[1]) = DIO_OPCODE
    /\ Opcode(ws[2]) = DIO_OPCODE
    /\ ~(0 < BulkCount(ws) /\ BulkCount(ws) <= Len(ws) - 2)

(* The words at indices k, k + 1 were decoded as one DIO/data pair.        *)
PairedAt(k) ==
    \E j \in 1..Len(log) :
        /\ log[j].kind \in {"InitDIO", "BootDIO"}
        /\ log[j].index = k
        /\ log[j].address = Address(words[k + 1])
        /\ log[j].data = words[k + 2]
        /\ \A m \in 1..Len(log) : log[m].index # k + 1
        /\ (j < Len(log) => log[j + 1].index = k + 2)

ProcessedAt(k) == \E j \in 1..Len(log) : log[j].index = k

NoJmpWord(ws) == \A k \in 1..Len(ws) : ws[k] \div 4096 # \o60

C12_DefaultStartWithoutJmp ==
    (Decoding /\ NoJmpWord(words)) => start_address = \o100

C12_Witness ==
    /\ pc = "done"
    /\ Len(words) = 4
    /\ NoJmpWord(words)
    /\ memory # EmptyMem
    /\ start_address = \o100
(***************************************************************************)
(* C13: for every tape none of whose bytes has bit 7 set, the empty tape   *)
(* included, the decode yields no payload unit, no word, an empty Memory   *)
(* Image and the start address octal 100, and all 4096 output lines are    *)
(* 00000.                                                                  *)
(***************************************************************************)
AllFiller(bytes) == \A k \in 1..Len(bytes) : bytes[k] < 128

ZeroLine == <<"0", "0", "0", "0", "0">>

C13_AllFillerEmpty ==
    AllFiller(rim_bytes) =>
        /\ data_bytes = <<>>
        /\ words = <<>>
        /\ memory = EmptyMem
        /\ start_address = \o100
        /\ (pc = "hex" =>
                /\ Len(hex_lines) = 4096
                /\ \A a \in 1..4096 : hex_lines[a] = ZeroLine)

C13_Witness ==
    /\ pc = "hex"
    /\ rim_bytes = <<0, 64, 0>>
    /\ pos = 3
    /\ memory = EmptyMem
    /\ hex_lines[1] = ZeroLine
    /\ hex_lines[4096] = ZeroLine

(***************************************************************************)
(* C15: the byte classifier emits, in input order, exactly one payload     *)
(* unit for each input byte that has bit 7 set, equal to the low 6 bits of *)
(* that byte (bit 6 is dropped, every unit is in 0..63), and nothing for a *)
(* byte with bit 7 clear.                                                  *)
(***************************************************************************)
PayloadsOf(bytes) ==
    LET d == SelectSeq(bytes, HasBit7) IN [k \in 1..Len(d) |-> d[k] % 64]

C15_Classifier ==
    /\ data_bytes = PayloadsOf(SubSeq(rim_bytes, 1, pos))
    /\ \A k \in 1..Len(data_bytes) : data_bytes[k] \in 0..63
    /\ (pc # "extract" => pos = Len(rim_bytes))

C15_Witness ==
    /\ pc = "done"
    /\ rim_bytes = <<StrayByte, 64>> \o EncodeWord(DIO200) \o <<0>>
    /\ data_bytes = <<\o32, \o32, 2, 0>>

(***************************************************************************)
(* C16: the word assembler maps a payload list p of length n to exactly    *)
(* floor(n / 3) words, the k-th being p[3k] * 4096 + p[3k+1] * 64 +        *)
(* p[3k+2]; the trailing n mod 3 units are dropped without error, and a    *)
(* list of length 0, 1 or 2 yields no word.                                *)
(***************************************************************************)
WordOfTriple(p, k) == p[3 * k + 1] * 4096 + p[3 * k + 2] * 64 + p[3 * k + 3]

C16_Assembler ==
    /\ pc # "raised"
    /\ (pc = "decode" => Len(words) = di \div 3 /\ di % 3 = 0 /\ di <= Len(data_bytes))
    /\ (pc \notin {"extract", "decode"} => Len(words) = Len(data_bytes) \div 3)
    /\ \A k \in 0..(Len(words) - 1) : words[k + 1] = WordOfTriple(data_bytes, k)

C16_Witness ==
    /\ pc = "done"
    /\ Len(data_bytes) = 8
    /\ Len(words) = 2
    /\ words[2] = WordOfTriple(data_bytes, 1)
    /\ words[2] \notin TapeWords
(***************************************************************************)
(* C14: the decode of every finite tape terminates.  Every iteration of    *)
(* the word loop of simulate_rim_loading advances the word index by 1 or   *)
(* 2, in either phase and for every opcode, every iteration of             *)
(* parse_rim_simple advances its index by 6, the index never passes the    *)
(* end of the list by more than one step, and the run reaches its end.     *)
(***************************************************************************)
C14_Terminates ==
    /\ <>(pc = "done")
    /\ [][(pc = "simulate" /\ pc' = "simulate") => i' \in {i + 1, i + 2}]_vars
    /\ [][(pc = "simple" /\ pc' = "simple") => i' = i + 6]_vars
    /\ [](pc = "simulate" => i <= Len(words) + 1)
    /\ [](pc = "simple" => i <= Len(data_bytes))

C14_Witness ==
    /\ pc = "done"
    /\ ~simulate
    /\ Len(data_bytes) = 7
    /\ i = 6
    /\ memory # EmptyMem

(***************************************************************************)
(* C18 (as stated): an instruction-position word whose opcode is neither   *)
(* DIO nor JMP is inert before and after any JMP: processing it leaves the *)
(* memory image and the start address unchanged and advances the word      *)
(* index by exactly one.                                                   *)
(***************************************************************************)
AtOtherOpcode ==
    /\ pc = "simulate"
    /\ i < Len(words)
    /\ Opcode(words[i + 1]) \notin {DIO_OPCODE, JMP_OPCODE}

ImplicitDepositWrites ==
    /\ HasNext(words, i)
    /\ (words[i + 2] # 0 \/ Address(words[i + 1]) \in DOMAIN memory)

AtDioWithNext ==
    /\ pc = "simulate"
    /\ i < Len(words)
    /\ Opcode(words[i + 1]) = DIO_OPCODE
    /\ HasNext(words, i)

DioDataNeverInstruction ==
    \A j \in 1..Len(log) :
        log[j].kind \in {"InitDIO", "BootDIO"} => ~ProcessedAt(log[j].index + 1)

C19_DioConsumesPair ==
    /\ [][AtDioWithNext =>
             /\ memory' = StoreWord(memory, Address(words[i + 1]), words[i + 2])
             /\ i' = i + 2
             /\ start_address' = start_address
             /\ bootloader_active' = bootloader_active]_vars
    /\ [](Decoding => DioDataNeverInstruction)

C19_Witness ==
    /\ pc = "done"
    /\ words = <<JMP200, DIO201, JMP201>>
    /\ bootloader_active
    /\ memory = (\o201 :> JMP201)
    /\ start_address = DefaultStart
    /\ Len(log) = 2

(***************************************************************************)
(* C20 (as stated): on a tape of two blocks of whole words separated by    *)
(* filler, a DIO instruction word that is the last word of the first       *)
(* block causes no write, and the first word of the second block is        *)
(* interpreted as an instruction.                                          *)
(***************************************************************************)
WholeWordBlock(blk) == Len(blk) >= 3 /\ Len(blk) % 3 = 0

TwoBlocks(bytes) ==
    /\ HasFiller(bytes)
    /\ \A k \in FirstFiller(bytes)..LastFiller(bytes) : IsFiller(bytes[k])
    /\ WholeWordBlock(Block1(bytes))
    /\ WholeWordBlock(Block2(bytes))

(* Index of the last word of the first block.                              *)
Block1Last(bytes) == (Len(Block1(bytes)) \div 3) - 1

BlockEndsInDioInstruction ==
    /\ pc = "done"
    /\ TwoBlocks(rim_bytes)
    /\ Opcode(words[Block1Last(rim_bytes) + 1]) = DIO_OPCODE
    /\ \E j \in 1..Len(log) :
          log[j].index = Block1Last(rim_bytes) /\ log[j].kind # "BootImplicit"

WriteAt(k) == \E j \in 1..Len(log) : log[j].index = k /\ IsWriteEvent(log[j])

TransferSucceeded(o) == o \in {"success", "run_raised"}

UploadEnded == upc \in {"returned_true", "reset"}

AllAttemptsFailed ==
    /\ Len(outcomes) = MAX_UPLOAD_RETRIES
    /\ \A k \in 1..Len(outcomes) : outcomes[k] # "success"

AtMostMaxAttempts ==
    /\ attempt <= MAX_UPLOAD_RETRIES
    /\ Len(outcomes) <= attempt
    /\ \A k \in 1..Len(spi_log) : spi_log[k].attempt \in 1..MAX_UPLOAD_RETRIES

ResetIffAllFailed ==
    /\ reset_called => AllAttemptsFailed
    /\ (UploadEnded /\ AllAttemptsFailed) => reset_called
    /\ upc = "returned_true" =>
          (outcomes # <<>> /\ outcomes[Len(outcomes)] = "success" /\ ~reset_called)

C17_TrueAtFirstGoodTransfer ==
    /\ AtMostMaxAttempts
    /\ ResetIffAllFailed
    /\ \A k \in 1..Len(outcomes) :
          TransferSucceeded(outcomes[k]) =>
              (upc = "returned_true" /\ attempt = k /\ Len(outcomes) = k)

(***************************************************************************)
(* C17 (amended): load_and_run_from_bytes makes at most                    *)
(* MAX_UPLOAD_RETRIES attempts; it returns True at the first attempt whose *)
(* transfer succeeds and whose CPU run command does not raise, and makes   *)
(* no further attempt; an attempt whose transfer succeeded but whose CPU   *)
(* run command raised counts as failed and is followed by the next attempt *)
(* or, when it was the last, by reset(); reset() is called if and only if  *)
(* every attempt failed; True is never returned after a failed final       *)
(* attempt.                                                                *)
(***************************************************************************)
C17_TrueAtFirstGoodRun ==
    /\ AtMostMaxAttempts
    /\ ResetIffAllFailed
    /\ \A k \in 1..Len(outcomes) :
          /\ outcomes[k] = "success" =>
                (upc = "returned_true" /\ attempt = k /\ Len(outcomes) = k)
          /\ outcomes[k] # "success" =>
                \/ attempt > k
                \/ upc \in {"attempt_end", "reset"} /\ attempt = k

C17_Witness ==
    /\ upc = "returned_true"
    /\ attempt = MAX_UPLOAD_RETRIES
    /\ outcomes = <<"run_raised", "success">>
    /\ data_len > CHUNK_SIZE
    /\ ~reset_called

(***************************************************************************)
(* C21: a JMP instruction word never ends the decode.  Processing it       *)
(* leaves the loop running one word further on; at the end of the run the  *)
(* index has reached the end of the word list and every word was either    *)
(* processed as an instruction or consumed as the data of the word before  *)
(* it; and a DIO word with a following word that comes directly after a    *)
(* JMP instruction word is processed as a pair whose data word is written  *)
(* at the DIO word's address.                                              *)
(***************************************************************************)
AtJmp ==
    /\ pc = "simulate"
    /\ i < Len(words)
    /\ Opcode(words[i + 1]) = JMP_OPCODE

(* The word at index k was taken as the second word of the step at k - 1.  *)
ConsumedAsData(k) ==
    \E j \in 1..Len(log) :
        /\ log[j].index = k - 1
        /\ log[j].kind \in {"InitDIO", "BootDIO", "BootImplicit", "BootImplicitSkip"}

PairAfterJmpWritten(j) ==
    LET k == log[j].index + 1 IN
    (/\ IsJmpEvent(log[j])
     /\ k + 1 < Len(words)
     /\ Opcode(words[k + 1]) = DIO_OPCODE)
        => /\ j < Len(log)
           /\ log[j + 1] = Ev("BootDIO", k, words[k + 1], words[k + 2])
           /\ Address(words[k + 1]) \in DOMAIN memory

C22_JmpFrame ==
    [][AtJmp =>
          /\ memory' = memory
          /\ DOMAIN memory' = DOMAIN memory
          /\ i' = i + 1
          /\ start_address' \in {start_address, Address(words[i + 1])}
          /\ bootloader_active'
          /\ UNCHANGED <<rim_bytes, data_bytes, words>>]_vars

C22_Witness ==
    /\ pc = "done"
    /\ words = <<DIO200, Data777000, JMP201, JMP200>>
    /\ memory = (\o200 :> Data777000)
    /\ start_address = \o200
    /\ bootloader_active
    /\ Len(log) = 3

(***************************************************************************)
(* C23: the simulated loader has two phases.  bootloader_active is false   *)
(* until the first JMP instruction word is processed, true from then on    *)
(* and never false again; the start address changes only in the step of a  *)
(* JMP instruction word processed while bootloader_active is true, which   *)
(* is a second or later JMP instruction word, and it becomes that word's   *)
(* address field.                                                          *)
(***************************************************************************)
C23_TwoPhases ==
    /\ [](pc \in {"extract", "decode"} => ~bootloader_active)
    /\ [](Decoding => (bootloader_active <=> JmpEvents(log) # <<>>))
    /\ [][bootloader_active => bootloader_active']_vars
    /\ [][(~bootloader_active /\ bootloader_active') =>
             (AtJmp /\ JmpEvents(log) = <<>> /\ start_address' = start_address)]_vars
    /\ [][start_address' # start_address =>
             /\ AtJmp
             /\ bootloader_active
             /\ Len(JmpEvents(log)) >= 1
             /\ start_address' = Address(words[i + 1])]_vars
    /\ [][(AtJmp /\ bootloader_active) => start_address' = Address(words[i + 1])]_vars

C23_Witness ==
    /\ pc = "done"
    /\ words = <<JMP201, JMP201, JMP200>>
    /\ Len(JmpEvents(log)) = 3
    /\ log[1].kind = "InitJMP"
    /\ log[3].kind = "BootJMP"
    /\ start_address = \o200
    /\ memory = EmptyMem

(***************************************************************************)
(* C24: in the bootloader phase an instruction-position word whose opcode  *)
(* is neither DIO nor JMP is an implicit deposit.  The memory image        *)
(* changes in that step only when a following word exists and it is        *)
(* non-zero or the word's address is already a key, and then the following *)
(* word is stored at the word's address field; under that condition it is  *)
(* always stored.  In every case the index advances by two, also past the  *)
(* end of the list when no following word exists.                          *)
(***************************************************************************)
AtImplicitDeposit == AtOtherOpcode /\ bootloader_active

C24_ImplicitDeposit ==
    /\ [][AtImplicitDeposit => (i' = i + 2 /\ pc' = "simulate")]_vars
    /\ [][(AtImplicitDeposit /\ memory' # memory) =>
             /\ i + 1 < Len(words)
             /\ words[i + 2] # 0 \/ Address(words[i + 1]) \in DOMAIN memory]_vars
    /\ [][(AtImplicitDeposit /\ i + 1 < Len(words)
             /\ (words[i + 2] # 0 \/ Address(words[i + 1]) \in DOMAIN memory)) =>
             /\ Address(words[i + 1]) \in DOMAIN memory'
             /\ memory'[Address(words[i + 1])] = words[i + 2]
             /\ \A a \in DOMAIN memory : a # Address(words[i + 1]) => memory'[a] = memory[a]
             /\ DOMAIN memory' = DOMAIN memory \cup {Address(words[i + 1])}]_vars
    /\ [](Decoding => \A j \in 1..Len(log) :
             log[j].kind \in {"BootImplicit", "BootImplicitSkip"} => ~ProcessedAt(log[j].index + 1))

C24_Witness ==
    /\ pc = "done"
    /\ words = <<JMP200, Data777000, 0, Data777000>>
    /\ log[2].kind = "BootImplicitSkip"
    /\ log[3].kind = "BootImplicitSkip"
    /\ Len(log) = 3
    /\ i = Len(words) + 1
    /\ memory = EmptyMem

(***************************************************************************)
(* C25 (as stated): within each attempt of load_and_run_from_bytes the     *)
(* commands are issued in the order CPU halt, CPU reset, data transfer;    *)
(* the CPU run command is issued only after the transfer of the same       *)
(* attempt succeeded, never after a failed transfer, and at most once per  *)
(* call.                                                                   *)
(***************************************************************************)
IsCtrl(e, arg) == e.cmd = "ctrl" /\ e.arg = arg

(* The commands of the transfer, load_from_bytes.                          *)
IsTransferCmd(e) == e.cmd \in {"file_index", "file_tx_enable", "file_tx_data"}

(* The command before position k completed and belongs to the same attempt.*)
FollowsOk(k) ==
    /\ k > 1
    /\ spi_log[k - 1].ok
    /\ spi_log[k - 1].attempt = spi_log[k].attempt

(* An attempt starts with CPU halt: the first command of the call, or the  *)
(* first after the previous attempt's last command.                        *)
StartsAttempt(k) ==
    \/ k = 1 /\ spi_log[k].attempt = 1
    \/ k > 1 /\ spi_log[k].attempt = spi_log[k - 1].attempt + 1

(* No chunk of the attempt of position k raised before k.                  *)
NoChunkRaised(k) ==
    \A m \in 1..(k - 1) :
        (spi_log[m].attempt = spi_log[k].attempt /\ spi_log[m].cmd = "file_tx_data")
            => spi_log[m].ok

CommandOrder(k) ==
    LET e == spi_log[k] IN
    /\ IsCtrl(e, 2) <=> StartsAttempt(k)
    /\ IsCtrl(e, 4) => (FollowsOk(k) /\ IsCtrl(spi_log[k - 1], 2))
    /\ e.cmd = "file_index" => (FollowsOk(k) /\ IsCtrl(spi_log[k - 1], 4))
    /\ (IsTransferCmd(e) /\ e.cmd # "file_index") =>
          (k > 1 /\ IsTransferCmd(spi_log[k - 1]) /\ spi_log[k - 1].attempt = e.attempt)

(* The run command at position k comes directly after the completed       *)
(* file_tx_enable(False) of a transfer of the same attempt none of whose   *)
(* chunks raised.                                                          *)
RunAfterGoodTransfer(k) ==
    IsCtrl(spi_log[k], 1) =>
        /\ FollowsOk(k)
        /\ spi_log[k - 1].cmd = "file_tx_enable"
        /\ spi_log[k - 1].arg = 0
        /\ NoChunkRaised(k)

RunCommands == {k \in 1..Len(spi_log) : IsCtrl(spi_log[k], 1)}

C25_RunIssuedAtMostOnce ==
    /\ \A k \in 1..Len(spi_log) : CommandOrder(k) /\ RunAfterGoodTransfer(k)
    /\ Cardinality(RunCommands) <= 1

(***************************************************************************)
(* C25 (amended): within each attempt the commands are issued in the order *)
(* CPU halt, CPU reset, data transfer; the CPU run command is issued only  *)
(* after the transfer of the same attempt succeeded and never after a      *)
(* failed transfer; it is issued at most once per attempt and completes at *)
(* most once per call: it is issued again, in the next attempt, only when  *)
(* its earlier issue raised.                                               *)
(***************************************************************************)
C25_RunCompletesAtMostOnce ==
    /\ \A k \in 1..Len(spi_log) : CommandOrder(k) /\ RunAfterGoodTransfer(k)
    /\ Cardinality({k \in RunCommands : spi_log[k].ok}) <= 1
    /\ \A k, m \in RunCommands :
          k < m => (~spi_log[k].ok /\ spi_log[k].attempt < spi_log[m].attempt)
    /\ \A k \in RunCommands : spi_log[k].ok => (k = Len(spi_log) /\ upc = "returned_true")

C25_Witness ==
    /\ upc = "returned_true"
    /\ Cardinality(RunCommands) = 2
    /\ data_len = CHUNK_SIZE + 1
    /\ Len(spi_log) = 16
    /\ spi_log[8] = [cmd |-> "ctrl", arg |-> 1, attempt |-> 1, ok |-> FALSE]
    /\ spi_log[16] = [cmd |-> "ctrl", arg |-> 1, attempt |-> 2, ok |-> TRUE]

(***************************************************************************)
(* C26: after the combo has toggled the OSD and set the wait-for-release   *)
(* bit, once all buttons are released (the reading is 0, or 1 when only    *)
(* BTN[0] is set) the wait bit is eventually cleared, in the IRQ-driven    *)
(* mode and in the polling loop of run(), unless the buttons are pressed   *)
(* again before.                                                           *)
(***************************************************************************)
Released(b) == b \in {0, 1}

WaitingReleased == WaitBit(enable) /\ Released(btn_hw)

C26_WaitBitEventuallyCleared ==
    WaitingReleased ~> (~WaitBit(enable) \/ ~Released(btn_hw))

(***************************************************************************)
(* C27: while the wait-for-release bit of enable[0] is set, poll_events    *)
(* toggles nothing and performs no menu action; a menu action (up, down,   *)
(* updir, select, refresh) is performed only when enable[0] = 1; so        *)
(* between two OSD toggles there is always a release event, whose reading  *)
(* is a released one, and holding the combo toggles the OSD only once.     *)
(***************************************************************************)
MenuKinds == {"menu_up", "menu_down", "updir", "select", "refresh"}

WaitSet == enable \in {2, 3}

NewOsdEvents == SubSeq(osd_log', Len(osd_log) + 1, Len(osd_log'))

NoToggleWhileWaiting ==
    [][WaitSet =>
          /\ osd_visible' = osd_visible
          /\ enable' \in {enable, enable % 2}
          /\ \A k \in 1..Len(NewOsdEvents) :
                NewOsdEvents[k].kind \in {"release", "waiting"}]_vars

MenuOnlyWhenShown ==
    \A k \in 1..Len(osd_log) :
        /\ osd_log[k].kind \in MenuKinds => osd_log[k].enable = 1
        /\ osd_log[k].kind = "toggle" => osd_log[k].enable \in {0, 1}
        /\ osd_log[k].kind = "release" => Released(osd_log[k].btn)

ReleaseBetweenToggles ==
    \A j, k \in 1..Len(osd_log) :
        (j < k /\ osd_log[j].kind = "toggle" /\ osd_log[k].kind = "toggle")
            => \E m \in (j + 1)..(k - 1) : osd_log[m].kind = "release"

C27_NoActionWhileWaiting ==
    /\ NoToggleWhileWaiting
    /\ [](MenuOnlyWhenShown /\ ReleaseBetweenToggles)

C27_Witness ==
    /\ mode = "polling"
    /\ Len(osd_log) = 4
    /\ osd_log[1] = OsdEv("toggle", COMBO, 0)
    /\ osd_log[2] = OsdEv("waiting", COMBO + 1, 3)
    /\ osd_log[3] = OsdEv("release", 0, 3)
    /\ osd_log[4] = OsdEv("toggle", COMBO, 1)
    /\ enable = 2

(***************************************************************************)
(* C28: in load_file no SPI or OSD command is issued while self.spi is      *)
(* None, and on every return path, for every file name, self.spi is an      *)
(* initialised SPI instance again.                                          *)
(* Refuted by the code: a name that ends in none of .bit, .rim, .bin, .hex  *)
(* matches no branch of the if/elif chain, which has no else, so load_file  *)
(* returns after the deinit with self.spi = None.                           *)
(***************************************************************************)
NoCommandWhileNone ==
    \A k \in 1..Len(fb_log) : fb_log[k].spi = "ready"

HasPrinted(msg) == \E k \in 1..Len(fb_log) : fb_log[k].cmd = msg

RdFailed == HasPrinted("SD mount FAILED") \/ HasPrinted("Step 6 ERROR")

RdSucceeded == HasPrinted("Step 6 OK")

StatFailed(n) ==
    \E k \in 1..Len(fb_log) : fb_log[k].cmd = "stat error" /\ fb_log[k].name = n

StatOk(n) == ~StatFailed(n)

Entries(q) == [k \in 1..Len(q) |-> DirEntry(q[k])]

(* The names in Python's string order, and those cwd holds.                 *)
NamesInOrder == [n \in 1..Len(FileNames) |-> n]

InCwd(n) == \E k \in 1..Len(listing) : listing[k] = n

(* The sorted listing of cwd: every directory, every file with one of the   *)
(* four endings.                                                            *)
ListedInCwd(n) == InCwd(n) /\ Listed(n)

FilteredListing == Entries(SelectSeq(NamesInOrder, ListedInCwd))

(* The same without the names whose stat raised.                            *)
ListedAndStatOk(n) == ListedInCwd(n) /\ StatOk(n)

StattedListing == Entries(SelectSeq(NamesInOrder, ListedAndStatOk))

(* The call fails or succeeds, never both; it returns with the SPI back.    *)
RdOutcome ==
    /\ ~(RdFailed /\ RdSucceeded)
    /\ fpc = "rd_return" => (self_spi = "ready" /\ (RdFailed \/ RdSucceeded))

(* direntries changes only in the step that reports success, so a call that *)
(* fails leaves the cache as it was.                                        *)
CacheChangesOnlyOnSuccess ==
    direntries' # direntries => (~RdSucceeded /\ RdSucceeded')

C29_ReplacedByFilteredListing ==
    /\ [](RdOutcome /\ (RdSucceeded => direntries = FilteredListing))
    /\ [][CacheChangesOnlyOnSuccess]_vars

C29_ReplacedByStattedListing ==
    /\ [](RdOutcome /\ (RdSucceeded => direntries = StattedListing))
    /\ [][CacheChangesOnlyOnSuccess]_vars

(* Three names in cwd; the stat of war.rim raises, notes.txt is filtered    *)
(* out, the directory is kept.                                              *)
C29_Witness ==
    /\ fpc = "rd_return"
    /\ RdSucceeded
    /\ listing = <<1, 2, 4>>
    /\ StatFailed(4)
    /\ direntries = <<<<"games", 1, 0>>>>
    /\ self_spi = "ready"

(***************************************************************************)
(* C30: when serial_loader is run with a file, no Stop or Load command is   *)
(* sent unless the ping was answered with 'K'; the Stop command is sent     *)
(* before the first Load command; the set-address and Run commands are sent *)
(* only after all Load commands and only if at least one word was loaded;   *)
(* with --no-run the Run command is never sent.                             *)
(* This holds when none of --ping, --stop, --set-address, --set-word is     *)
(* given: each of these is handled first and returns, so with one of them   *)
(* the file is ignored and --stop or --set-address sends its command with   *)
(* no ping and no load.                                                     *)
(***************************************************************************)
Sent(c) == {k \in 1..Len(ser_log) : ser_log[k].cmd = c}

LoadOrder ==
    /\ (Sent("S") \cup Sent("L") # {}) => ping_rsp = RSP_OK
    /\ \A l \in Sent("L") : \E st \in Sent("S") : st < l
    /\ \A k \in Sent("A") \cup Sent("R") :
          /\ words_loaded > 0
          /\ Sent("L") # {}
          /\ \A l \in Sent("L") : l < k
          /\ spc = "closed"
    /\ args.no_run => Sent("R") = {}

C30_LoadOrderWithFile == args.file => LoadOrder

C30_LoadOrderInLoadMode ==
    /\ (args.file /\ NoSingleCommand) => LoadOrder
    /\ ~NoSingleCommand => (Len(ser_log) <= 1 /\ Sent("L") = {})

(* A file of two words, loaded from address 0o100 and started.              *)
C30_Witness ==
    /\ spc = "closed"
    /\ args.file
    /\ ~args.no_run
    /\ args.start_address = 64
    /\ words_loaded = 2
    /\ ser_log = <<SerCmd("P", 0, 0), SerCmd("S", 0, 0), SerCmd("L", 64, 1024),
                   SerCmd("L", 65, 1), SerCmd("A", 64, 0), SerCmd("R", 0, 0)>>

(***************************************************************************)
(* C31: in load_from_bytes and load, file-transfer mode is enabled before   *)
(* the first data chunk is sent and is disabled again on every path by      *)
(* which the function returns (success, or an exception while streaming),   *)
(* so the function never returns with transfer mode left enabled; no data   *)
(* chunk is sent outside the enabled window.                                *)
(***************************************************************************)
Returned == upc = "loaded"

IsEnable(e) == e.cmd = "file_tx_enable" /\ e.arg = 1

IsDisable(e) == e.cmd = "file_tx_enable" /\ e.arg = 0

IsChunk(e) == e.cmd = "file_tx_data"

(* Chunk k follows a completed enable with nothing but chunks in between.  *)
InEnabledWindow(k) ==
    \E j \in 1..(k - 1) :
       /\ IsEnable(spi_log[j])
       /\ spi_log[j].ok
       /\ \A m \in (j + 1)..(k - 1) : IsChunk(spi_log[m])

EverEnabled == \E k \in 1..Len(spi_log) : IsEnable(spi_log[k])

C31_TransferWindowClosed ==
    /\ Returned => ~tx_enabled
    /\ (Returned /\ EverEnabled) =>
          (IsDisable(spi_log[Len(spi_log)]) /\ spi_log[Len(spi_log)].ok)
    /\ \A k \in 1..Len(spi_log) : IsChunk(spi_log[k]) => InEnabledWindow(k)

(* load: one chunk is sent, the next f.read raises, the handler disables    *)
(* transfer mode and load returns False.                                    *)
C31_Witness ==
    /\ Returned
    /\ from_file
    /\ success = "False"
    /\ Len(spi_log) = 4
    /\ IsChunk(spi_log[3])
    /\ spi_log[3].ok
    /\ IsDisable(spi_log[4])
    /\ ~tx_enabled

(***************************************************************************)
(* C32: every ld_pdp1 SPI command drives CS active before its first byte    *)
(* and inactive after its last byte, sends all its bytes inside that single *)
(* window, and after any sequence of these operations, including one in     *)
(* which an SPI write raises, CS is inactive.                               *)
(* Refuted by the code: the commands have no try/finally, so a write that   *)
(* raises skips _cs_inactive(); CS stays active and the next command's      *)
(* bytes travel in the window the failed command opened.                    *)
(***************************************************************************)
BetweenCommands == upc = "idle"

(* Every _cs_active() opens a window of its own: the pin was inactive.      *)
OpensOwnWindow ==
    \A k \in 1..Len(spi_log) : spi_log[k].ev = "cs_low" => spi_log[k].edge

(* Every write follows its command's cs_low with only that command's        *)
(* writes in between.                                                       *)
WritesInsideWindow ==
    \A k \in 1..Len(spi_log) :
       spi_log[k].ev = "write" =>
          \E j \in 1..(k - 1) :
             /\ spi_log[j].ev = "cs_low"
             /\ spi_log[j].cmd = spi_log[k].cmd
             /\ \A m \in (j + 1)..(k - 1) : spi_log[m].ev = "write"

C32_CsFraming ==
    /\ BetweenCommands => ~cs_active
    /\ OpensOwnWindow
    /\ WritesInsideWindow

NoWriteRaised == \A k \in 1..Len(outcomes) : outcomes[k] = "ok"

(* What the code does keep: the framing as long as no write has raised, and *)
(* CS active from a write that raised until a later command completes.      *)
C32_CsFramingWithoutRaise ==
    /\ NoWriteRaised => C32_CsFraming
    /\ WritesInsideWindow
    /\ (BetweenCommands /\ outcomes # <<>>) =>
          (cs_active <=> outcomes[Len(outcomes)] = "raised")

(***************************************************************************)
(* C33: while the IRQ handler is enabled, an SPI transaction of the         *)
(* interrupt handler never interleaves with an SPI transaction of the main  *)
(* loop: no main-loop transaction has its CS window ended or its result     *)
(* buffer overwritten by the handler.                                       *)
(* Refuted by the code: nothing masks the interrupt or locks the bus during *)
(* a main-loop transaction, so the handler runs inside it, ends its CS      *)
(* window and overwrites spi_result.                                        *)
(***************************************************************************)
BusEvents(ctx) == {k \in 1..Len(spi_log) : spi_log[k].ctx = ctx}

(* The handler only runs between transactions of the main loop.             *)
HandlerOutsideMain == \A k \in BusEvents("irq") : ~spi_log[k].busy

(* Every transfer of the main loop and its cs_high find CS still active.    *)
MainWindowKept ==
    \A k \in BusEvents("main") :
       spi_log[k].ev \in {"transfer", "cs_high"} => spi_log[k].cs

(* The main loop reads from spi_result what its own transfer put there.     *)
MainResultKept ==
    \A k \in BusEvents("main") : spi_log[k].ev = "result" => spi_log[k].by = "main"

C33_NoInterleaving ==
    /\ HandlerOutsideMain
    /\ MainWindowKept
    /\ MainResultKept

====
